---- MODULE Spec2Model ----
(***************************************************************************)
(* A model of the rapid-image library: pixel formats, plane descriptors,   *)
(* image descriptors (layout synthesis), the plane copy engine and the RIL  *)
(* container codec.  Every quantity in the model stays far below 2^31, so   *)
(* the uint32_t arithmetic of the source never wraps inside the model.      *)
(***************************************************************************)
EXTENDS Integers, Sequences, FiniteSets, TLC

VARIABLES pc, args, plane, desc, assertFailed, srcData, dstData, stream, pixels, outcome

vars == <<pc, args, plane, desc, assertFailed, srcData, dstData, stream, pixels, outcome>>

\* ------------------------------------------------------------------------
\* Bounds of the model
\* ------------------------------------------------------------------------
MaxExtent == 5

MaxDepth == 2

MaxAlign == 4

\* ------------------------------------------------------------------------
\* Small helpers
\* ------------------------------------------------------------------------
Max(a, b) == IF a > b THEN a ELSE b


\* ------------------------------------------------------------------------
\* PixelFormat
\* ------------------------------------------------------------------------
LAYOUT_UNKNOWN == 0

LAYOUT_8 == 8

LAYOUT_8_8 == 9

LAYOUT_8_8_8_8 == 11

LAYOUT_16 == 15

LAYOUT_BC1 == 30

LAYOUT_ASTC_5x4 == 40
LAYOUT_ASTC_6x6 == 43

NUM_COLOR_LAYOUTS == 53

SIGN_UNORM == 0

SIGN_UINT == 4

SIGN_FLOAT == 8

SWIZZLE_X == 0

SWIZZLE_Y == 1

SWIZZLE_Z == 2

SWIZZLE_W == 3

SWIZZLE_0 == 4

SWIZZLE_1 == 5

\* Swizzle4 constants: four 3-bit swizzles packed at bit 0, 3, 6 and 9.
SWIZZLE_XYZW == 0 + 1 * 8 + 2 * 64 + 3 * 512

SWIZZLE_XYZ1 == 0 + 1 * 8 + 2 * 64 + 5 * 512

SWIZZLE_XY01 == 0 + 1 * 8 + 4 * 64 + 5 * 512

SWIZZLE_X001 == 0 + 4 * 8 + 4 * 64 + 5 * 512

\* The layout table, indexed by layout + 1.
LAYOUTS ==
   <<
      [blockWidth |-> 0, blockHeight |-> 0, blockBytes |-> 0, numChannels |-> 0, channels |-> <<<<0, 0>>, <<0, 0>>, <<0, 0>>, <<0, 0>>>>],  \* 0 LAYOUT_UNKNOWN
      [blockWidth |-> 8, blockHeight |-> 1, blockBytes |-> 1, numChannels |-> 1, channels |-> <<<<0, 1>>, <<0, 0>>, <<0, 0>>, <<0, 0>>>>],  \* 1 LAYOUT_1
      [blockWidth |-> 1, blockHeight |-> 1, blockBytes |-> 1, numChannels |-> 4, channels |-> <<<<0, 2>>, <<2, 2>>, <<4, 2>>, <<6, 2>>>>],  \* 2 LAYOUT_2_2_2_2
      [blockWidth |-> 1, blockHeight |-> 1, blockBytes |-> 1, numChannels |-> 3, channels |-> <<<<0, 3>>, <<3, 3>>, <<8, 2>>, <<0, 0>>>>],  \* 3 LAYOUT_3_3_2
      [blockWidth |-> 1, blockHeight |-> 1, blockBytes |-> 1, numChannels |-> 2, channels |-> <<<<0, 4>>, <<4, 4>>, <<0, 0>>, <<0, 0>>>>],  \* 4 LAYOUT_4_4
      [blockWidth |-> 1, blockHeight |-> 1, blockBytes |-> 2, numChannels |-> 4, channels |-> <<<<0, 4>>, <<4, 4>>, <<8, 4>>, <<12, 4>>>>],  \* 5 LAYOUT_4_4_4_4
      [blockWidth |-> 1, blockHeight |-> 1, blockBytes |-> 2, numChannels |-> 4, channels |-> <<<<0, 5>>, <<10, 5>>, <<15, 5>>, <<15, 1>>>>],  \* 6 LAYOUT_5_5_5_1
      [blockWidth |-> 1, blockHeight |-> 1, blockBytes |-> 2, numChannels |-> 3, channels |-> <<<<0, 5>>, <<5, 6>>, <<11, 5>>, <<0, 0>>>>],  \* 7 LAYOUT_5_6_5
      [blockWidth |-> 1, blockHeight |-> 1, blockBytes |-> 1, numChannels |-> 1, channels |-> <<<<0, 8>>, <<0, 0>>, <<0, 0>>, <<0, 0>>>>],  \* 8 LAYOUT_8
      [blockWidth |-> 1, blockHeight |-> 1, blockBytes |-> 2, numChannels |-> 2, channels |-> <<<<0, 8>>, <<8, 8>>, <<0, 0>>, <<0, 0>>>>],  \* 9 LAYOUT_8_8
      [blockWidth |-> 1, blockHeight |-> 1, blockBytes |-> 3, numChannels |-> 3, channels |-> <<<<0, 8>>, <<8, 8>>, <<16, 8>>, <<0, 0>>>>],  \* 10 LAYOUT_8_8_8
      [blockWidth |-> 1, blockHeight |-> 1, blockBytes |-> 4, numChannels |-> 4, channels |-> <<<<0, 8>>, <<8, 8>>, <<16, 8>>, <<24, 8>>>>],  \* 11 LAYOUT_8_8_8_8
      [blockWidth |-> 1, blockHeight |-> 1, blockBytes |-> 4, numChannels |-> 3, channels |-> <<<<0, 10>>, <<10, 11>>, <<21, 11>>, <<0, 0>>>>],  \* 12 LAYOUT_10_11_11
      [blockWidth |-> 1, blockHeight |-> 1, blockBytes |-> 4, numChannels |-> 3, channels |-> <<<<0, 11>>, <<11, 11>>, <<22, 10>>, <<0, 0>>>>],  \* 13 LAYOUT_11_11_10
      [blockWidth |-> 1, blockHeight |-> 1, blockBytes |-> 4, numChannels |-> 4, channels |-> <<<<0, 10>>, <<10, 10>>, <<20, 10>>, <<30, 2>>>>],  \* 14 LAYOUT_10_10_10_2
      [blockWidth |-> 1, blockHeight |-> 1, blockBytes |-> 2, numChannels |-> 1, channels |-> <<<<0, 16>>, <<0, 0>>, <<0, 0>>, <<0, 0>>>>],  \* 15 LAYOUT_16
      [blockWidth |-> 1, blockHeight |-> 1, blockBytes |-> 4, numChannels |-> 2, channels |-> <<<<0, 16>>, <<16, 16>>, <<0, 0>>, <<0, 0>>>>],  \* 16 LAYOUT_16_16
      [blockWidth |-> 1, blockHeight |-> 1, blockBytes |-> 4, numChannels |-> 3, channels |-> <<<<0, 16>>, <<16, 16>>, <<32, 1>>, <<0, 0>>>>],  \* 17 LAYOUT_16_16_16
      [blockWidth |-> 1, blockHeight |-> 1, blockBytes |-> 8, numChannels |-> 4, channels |-> <<<<0, 16>>, <<16, 16>>, <<32, 16>>, <<48, 1>>>>],  \* 18 LAYOUT_16_16_16_16
      [blockWidth |-> 1, blockHeight |-> 1, blockBytes |-> 4, numChannels |-> 1, channels |-> <<<<0, 32>>, <<0, 0>>, <<0, 0>>, <<0, 0>>>>],  \* 19 LAYOUT_32
      [blockWidth |-> 1, blockHeight |-> 1, blockBytes |-> 8, numChannels |-> 2, channels |-> <<<<0, 32>>, <<32, 32>>, <<0, 0>>, <<0, 0>>>>],  \* 20 LAYOUT_32_32
      [blockWidth |-> 1, blockHeight |-> 1, blockBytes |-> 12, numChannels |-> 3, channels |-> <<<<0, 32>>, <<32, 32>>, <<64, 32>>, <<0, 0>>>>],  \* 21 LAYOUT_32_32_32
      [blockWidth |-> 1, blockHeight |-> 1, blockBytes |-> 16, numChannels |-> 4, channels |-> <<<<0, 32>>, <<32, 32>>, <<64, 32>>, <<96, 32>>>>],  \* 22 LAYOUT_32_32_32_32
      [blockWidth |-> 1, blockHeight |-> 1, blockBytes |-> 3, numChannels |-> 1, channels |-> <<<<0, 24>>, <<0, 0>>, <<0, 0>>, <<0, 0>>>>],  \* 23 LAYOUT_24
      [blockWidth |-> 1, blockHeight |-> 1, blockBytes |-> 4, numChannels |-> 2, channels |-> <<<<0, 8>>, <<8, 24>>, <<0, 0>>, <<0, 0>>>>],  \* 24 LAYOUT_8_24
      [blockWidth |-> 1, blockHeight |-> 1, blockBytes |-> 4, numChannels |-> 2, channels |-> <<<<0, 24>>, <<24, 8>>, <<0, 0>>, <<0, 0>>>>],  \* 25 LAYOUT_24_8
      [blockWidth |-> 1, blockHeight |-> 1, blockBytes |-> 4, numChannels |-> 4, channels |-> <<<<0, 4>>, <<4, 4>>, <<8, 24>>, <<0, 0>>>>],  \* 26 LAYOUT_4_4_24
      [blockWidth |-> 1, blockHeight |-> 1, blockBytes |-> 8, numChannels |-> 3, channels |-> <<<<0, 32>>, <<32, 8>>, <<40, 24>>, <<0, 0>>>>],  \* 27 LAYOUT_32_8_24
      [blockWidth |-> 2, blockHeight |-> 1, blockBytes |-> 4, numChannels |-> 4, channels |-> <<<<0, 0>>, <<0, 0>>, <<0, 0>>, <<0, 0>>>>],  \* 28 LAYOUT_GRGB
      [blockWidth |-> 2, blockHeight |-> 1, blockBytes |-> 4, numChannels |-> 4, channels |-> <<<<0, 0>>, <<0, 0>>, <<0, 0>>, <<0, 0>>>>],  \* 29 LAYOUT_RGBG
      [blockWidth |-> 4, blockHeight |-> 4, blockBytes |-> 8, numChannels |-> 3, channels |-> <<<<0, 0>>, <<0, 0>>, <<0, 0>>, <<0, 0>>>>],  \* 30 LAYOUT_BC1
      [blockWidth |-> 4, blockHeight |-> 4, blockBytes |-> 16, numChannels |-> 4, channels |-> <<<<0, 0>>, <<0, 0>>, <<0, 0>>, <<0, 0>>>>],  \* 31 LAYOUT_BC2
      [blockWidth |-> 4, blockHeight |-> 4, blockBytes |-> 16, numChannels |-> 4, channels |-> <<<<0, 0>>, <<0, 0>>, <<0, 0>>, <<0, 0>>>>],  \* 32 LAYOUT_BC3
      [blockWidth |-> 4, blockHeight |-> 4, blockBytes |-> 8, numChannels |-> 1, channels |-> <<<<0, 0>>, <<0, 0>>, <<0, 0>>, <<0, 0>>>>],  \* 33 LAYOUT_BC4
      [blockWidth |-> 4, blockHeight |-> 4, blockBytes |-> 16, numChannels |-> 2, channels |-> <<<<0, 0>>, <<0, 0>>, <<0, 0>>, <<0, 0>>>>],  \* 34 LAYOUT_BC5
      [blockWidth |-> 4, blockHeight |-> 4, blockBytes |-> 16, numChannels |-> 3, channels |-> <<<<0, 0>>, <<0, 0>>, <<0, 0>>, <<0, 0>>>>],  \* 35 LAYOUT_BC6H
      [blockWidth |-> 4, blockHeight |-> 4, blockBytes |-> 16, numChannels |-> 4, channels |-> <<<<0, 0>>, <<0, 0>>, <<0, 0>>, <<0, 0>>>>],  \* 36 LAYOUT_BC7
      [blockWidth |-> 4, blockHeight |-> 4, blockBytes |-> 8, numChannels |-> 3, channels |-> <<<<0, 0>>, <<0, 0>>, <<0, 0>>, <<0, 0>>>>],  \* 37 LAYOUT_EC2
      [blockWidth |-> 4, blockHeight |-> 4, blockBytes |-> 16, numChannels |-> 4, channels |-> <<<<0, 0>>, <<0, 0>>, <<0, 0>>, <<0, 0>>>>],  \* 38 LAYOUT_EC2_EAC
      [blockWidth |-> 4, blockHeight |-> 4, blockBytes |-> 16, numChannels |-> 4, channels |-> <<<<0, 0>>, <<0, 0>>, <<0, 0>>, <<0, 0>>>>],  \* 39 LAYOUT_ASTC_4x4
      [blockWidth |-> 5, blockHeight |-> 4, blockBytes |-> 16, numChannels |-> 4, channels |-> <<<<0, 0>>, <<0, 0>>, <<0, 0>>, <<0, 0>>>>],  \* 40 LAYOUT_ASTC_5x4
      [blockWidth |-> 5, blockHeight |-> 5, blockBytes |-> 16, numChannels |-> 4, channels |-> <<<<0, 0>>, <<0, 0>>, <<0, 0>>, <<0, 0>>>>],  \* 41 LAYOUT_ASTC_5x5
      [blockWidth |-> 6, blockHeight |-> 5, blockBytes |-> 16, numChannels |-> 4, channels |-> <<<<0, 0>>, <<0, 0>>, <<0, 0>>, <<0, 0>>>>],  \* 42 LAYOUT_ASTC_6x5
      [blockWidth |-> 6, blockHeight |-> 6, blockBytes |-> 16, numChannels |-> 4, channels |-> <<<<0, 0>>, <<0, 0>>, <<0, 0>>, <<0, 0>>>>],  \* 43 LAYOUT_ASTC_6x6
      [blockWidth |-> 8, blockHeight |-> 5, blockBytes |-> 16, numChannels |-> 4, channels |-> <<<<0, 0>>, <<0, 0>>, <<0, 0>>, <<0, 0>>>>],  \* 44 LAYOUT_ASTC_8x5
      [blockWidth |-> 8, blockHeight |-> 6, blockBytes |-> 16, numChannels |-> 4, channels |-> <<<<0, 0>>, <<0, 0>>, <<0, 0>>, <<0, 0>>>>],  \* 45 LAYOUT_ASTC_8x6
      [blockWidth |-> 8, blockHeight |-> 8, blockBytes |-> 16, numChannels |-> 4, channels |-> <<<<0, 0>>, <<0, 0>>, <<0, 0>>, <<0, 0>>>>],  \* 46 LAYOUT_ASTC_8x8
      [blockWidth |-> 10, blockHeight |-> 5, blockBytes |-> 16, numChannels |-> 4, channels |-> <<<<0, 0>>, <<0, 0>>, <<0, 0>>, <<0, 0>>>>],  \* 47 LAYOUT_ASTC_10x5
      [blockWidth |-> 10, blockHeight |-> 6, blockBytes |-> 16, numChannels |-> 4, channels |-> <<<<0, 0>>, <<0, 0>>, <<0, 0>>, <<0, 0>>>>],  \* 48 LAYOUT_ASTC_10x6
      [blockWidth |-> 10, blockHeight |-> 8, blockBytes |-> 16, numChannels |-> 4, channels |-> <<<<0, 0>>, <<0, 0>>, <<0, 0>>, <<0, 0>>>>],  \* 49 LAYOUT_ASTC_10x8
      [blockWidth |-> 10, blockHeight |-> 10, blockBytes |-> 16, numChannels |-> 4, channels |-> <<<<0, 0>>, <<0, 0>>, <<0, 0>>, <<0, 0>>>>],  \* 50 LAYOUT_ASTC_10x10
      [blockWidth |-> 12, blockHeight |-> 10, blockBytes |-> 16, numChannels |-> 4, channels |-> <<<<0, 0>>, <<0, 0>>, <<0, 0>>, <<0, 0>>>>],  \* 51 LAYOUT_ASTC_12x10
      [blockWidth |-> 12, blockHeight |-> 12, blockBytes |-> 16, numChannels |-> 4, channels |-> <<<<0, 0>>, <<0, 0>>, <<0, 0>>, <<0, 0>>>>]  \* 52 LAYOUT_ASTC_12x12
   >>

\* PixelFormat::make(l, si0, si12, si3, sw0, sw1, sw2, sw3): field masking only.
PixelFormatMake(l, si0, si12, si3, sw0, sw1, sw2, sw3) ==
   [layout |-> l % 128, reserved0 |-> 0, sign0 |-> si0 % 16, sign12 |-> si12 % 16, sign3 |-> si3 % 16,
    swizzle0 |-> sw0 % 8, swizzle1 |-> sw1 % 8, swizzle2 |-> sw2 % 8, swizzle3 |-> sw3 % 8]

\* PixelFormat::make(l, si0, si12, si3, Swizzle4): each swizzle is extracted with "& 3".
PixelFormatMake4(l, si0, si12, si3, sw0123) ==
   PixelFormatMake(l, si0, si12, si3,
                   (sw0123 \div 1) % 4, (sw0123 \div 8) % 4, (sw0123 \div 64) % 4, (sw0123 \div 512) % 4)

\* PixelFormat::make(l, si0123, Swizzle4)
PixelFormatMake1(l, si0123, sw0123) == PixelFormatMake4(l, si0123, si0123, si0123, sw0123)

UNKNOWN == [layout |-> 0, reserved0 |-> 0, sign0 |-> 0, sign12 |-> 0, sign3 |-> 0,
            swizzle0 |-> 0, swizzle1 |-> 0, swizzle2 |-> 0, swizzle3 |-> 0]

R_8_UNORM == PixelFormatMake1(LAYOUT_8, SIGN_UNORM, SWIZZLE_X001)

RG_8_8_UNORM == PixelFormatMake1(LAYOUT_8_8, SIGN_UNORM, SWIZZLE_XY01)

R_16_UINT == PixelFormatMake1(LAYOUT_16, SIGN_UINT, SWIZZLE_X001)

RGBA_8_8_8_8_UNORM == PixelFormatMake1(LAYOUT_8_8_8_8, SIGN_UNORM, SWIZZLE_XYZW)

BC1_UNORM == PixelFormatMake1(LAYOUT_BC1, SIGN_UNORM, SWIZZLE_XYZ1)

ASTC_5x4_UNORM == PixelFormatMake1(LAYOUT_ASTC_5x4, SIGN_UNORM, SWIZZLE_XYZW)
ASTC_6x6_UNORM == PixelFormatMake1(LAYOUT_ASTC_6x6, SIGN_UNORM, SWIZZLE_XYZW)

\* PixelFormat::valid()
FormatValid(f) ==
   /\ 0 < f.layout /\ f.layout < NUM_COLOR_LAYOUTS
   /\ f.sign0 <= SIGN_FLOAT /\ f.sign12 <= SIGN_FLOAT /\ f.sign3 <= SIGN_FLOAT
   /\ f.swizzle0 <= SWIZZLE_1 /\ f.swizzle1 <= SWIZZLE_1
   /\ f.swizzle2 <= SWIZZLE_1 /\ f.swizzle3 <= SWIZZLE_1
   /\ f.reserved0 = 0

\* PixelFormat::layoutDesc()
layoutDesc(f) == LAYOUTS[f.layout + 1]

\* ------------------------------------------------------------------------
\* The formats and flags the DDS codec names
\* ------------------------------------------------------------------------
LAYOUT_32_32_32_32 == 22

LAYOUT_32_32_32 == 21

LAYOUT_16_16_16_16 == 18

LAYOUT_32_32 == 20

LAYOUT_32_8_24 == 27

LAYOUT_10_10_10_2 == 14

LAYOUT_11_11_10 == 13

LAYOUT_16_16 == 16

LAYOUT_32 == 19

LAYOUT_24_8 == 25

LAYOUT_5_6_5 == 7

LAYOUT_5_5_5_1 == 6

LAYOUT_8_8_8 == 10

LAYOUT_4_4_4_4 == 5

LAYOUT_BC2 == 31

LAYOUT_BC3 == 32

LAYOUT_BC4 == 33

LAYOUT_BC5 == 34

SIGN_SINT == 5

SIGN_SNORM == 1

SIGN_GNORM == 3

SWIZZLE_0Y01 == 0 + 1 * 8 + 4 * 64 + 5 * 512

SWIZZLE_111X == 5 + 5 * 8 + 5 * 64 + 0 * 512

SWIZZLE_ZYX1 == 2 + 1 * 8 + 0 * 64 + 5 * 512

SWIZZLE_ZYXW == 2 + 1 * 8 + 0 * 64 + 3 * 512

SWIZZLE_XXX1 == 0 + 0 * 8 + 0 * 64 + 5 * 512

SWIZZLE_XXXY == 0 + 0 * 8 + 0 * 64 + 1 * 512

SWIZZLE_XY00 == 0 + 1 * 8 + 4 * 64 + 4 * 512

\* PixelFormat::make(l, si012, si3, Swizzle4)
PixelFormatMake2(l, si012, si3, sw0123) == PixelFormatMake4(l, si012, si012, si3, sw0123)

\* DXGI_FORMATS, indexed by DXGI format code + 1; each entry is the make call of
\* the named format on its right.  The table names the block-compressed formats
\* DXTn, which the header declares as BCn (DXGI_FORMAT_BCn).
DXGI_FORMATS ==
   <<
    UNKNOWN,
    PixelFormatMake1(LAYOUT_32_32_32_32, SIGN_UINT, SWIZZLE_XYZW),   \* RGBA_32_32_32_32_UINT
    PixelFormatMake1(LAYOUT_32_32_32_32, SIGN_FLOAT, SWIZZLE_XYZW),   \* RGBA_32_32_32_32_FLOAT
    PixelFormatMake1(LAYOUT_32_32_32_32, SIGN_UINT, SWIZZLE_XYZW),   \* RGBA_32_32_32_32_UINT
    PixelFormatMake1(LAYOUT_32_32_32_32, SIGN_SINT, SWIZZLE_XYZW),   \* RGBA_32_32_32_32_SINT
    PixelFormatMake1(LAYOUT_32_32_32, SIGN_UINT, SWIZZLE_XYZ1),   \* RGB_32_32_32_UINT
    PixelFormatMake1(LAYOUT_32_32_32, SIGN_FLOAT, SWIZZLE_XYZ1),   \* RGB_32_32_32_FLOAT
    PixelFormatMake1(LAYOUT_32_32_32, SIGN_UINT, SWIZZLE_XYZ1),   \* RGB_32_32_32_UINT
    PixelFormatMake1(LAYOUT_32_32_32, SIGN_SINT, SWIZZLE_XYZ1),   \* RGB_32_32_32_SINT
    PixelFormatMake1(LAYOUT_16_16_16_16, SIGN_UINT, SWIZZLE_XYZW),   \* RGBA_16_16_16_16_UINT
    PixelFormatMake1(LAYOUT_16_16_16_16, SIGN_FLOAT, SWIZZLE_XYZW),   \* RGBA_16_16_16_16_FLOAT
    PixelFormatMake1(LAYOUT_16_16_16_16, SIGN_UNORM, SWIZZLE_XYZW),   \* RGBA_16_16_16_16_UNORM
    PixelFormatMake1(LAYOUT_16_16_16_16, SIGN_UINT, SWIZZLE_XYZW),   \* RGBA_16_16_16_16_UINT
    PixelFormatMake1(LAYOUT_16_16_16_16, SIGN_SNORM, SWIZZLE_XYZW),   \* RGBA_16_16_16_16_SNORM
    PixelFormatMake1(LAYOUT_16_16_16_16, SIGN_SINT, SWIZZLE_XYZW),   \* RGBA_16_16_16_16_SINT
    PixelFormatMake1(LAYOUT_32_32, SIGN_UINT, SWIZZLE_XY01),   \* RG_32_32_UINT
    PixelFormatMake1(LAYOUT_32_32, SIGN_FLOAT, SWIZZLE_XY01),   \* RG_32_32_FLOAT
    PixelFormatMake1(LAYOUT_32_32, SIGN_UINT, SWIZZLE_XY01),   \* RG_32_32_UINT
    PixelFormatMake1(LAYOUT_32_32, SIGN_SINT, SWIZZLE_XY01),   \* RG_32_32_SINT
    PixelFormatMake1(LAYOUT_32_8_24, SIGN_UINT, SWIZZLE_XY01),   \* RGX_32_8_24_UINT
    PixelFormatMake4(LAYOUT_32_8_24, SIGN_FLOAT, SIGN_UINT, SIGN_UINT, SWIZZLE_XY01),   \* RGX_32_FLOAT_8_UINT_24
    PixelFormatMake4(LAYOUT_32_8_24, SIGN_FLOAT, SIGN_UINT, SIGN_UINT, SWIZZLE_X001),   \* RXX_32_8_24_FLOAT
    PixelFormatMake1(LAYOUT_32_8_24, SIGN_UINT, SWIZZLE_0Y01),   \* XGX_32_8_24_UINT
    PixelFormatMake1(LAYOUT_10_10_10_2, SIGN_UINT, SWIZZLE_XYZW),   \* RGBA_10_10_10_2_UINT
    PixelFormatMake1(LAYOUT_10_10_10_2, SIGN_UNORM, SWIZZLE_XYZW),   \* RGBA_10_10_10_2_UNORM
    PixelFormatMake1(LAYOUT_10_10_10_2, SIGN_UINT, SWIZZLE_XYZW),   \* RGBA_10_10_10_2_UINT
    PixelFormatMake1(LAYOUT_11_11_10, SIGN_FLOAT, SWIZZLE_XYZ1),   \* RGB_11_11_10_FLOAT
    PixelFormatMake1(LAYOUT_8_8_8_8, SIGN_UINT, SWIZZLE_XYZW),   \* RGBA_8_8_8_8_UINT
    RGBA_8_8_8_8_UNORM,
    PixelFormatMake2(LAYOUT_8_8_8_8, SIGN_GNORM, SIGN_UNORM, SWIZZLE_XYZW),   \* RGBA_8_8_8_8_SRGB
    PixelFormatMake1(LAYOUT_8_8_8_8, SIGN_UINT, SWIZZLE_XYZW),   \* RGBA_8_8_8_8_UINT
    PixelFormatMake1(LAYOUT_8_8_8_8, SIGN_SNORM, SWIZZLE_XYZW),   \* RGBA_8_8_8_8_SNORM
    PixelFormatMake1(LAYOUT_8_8_8_8, SIGN_SINT, SWIZZLE_XYZW),   \* RGBA_8_8_8_8_SINT
    PixelFormatMake1(LAYOUT_16_16, SIGN_UINT, SWIZZLE_XY01),   \* RG_16_16_UINT
    PixelFormatMake1(LAYOUT_16_16, SIGN_FLOAT, SWIZZLE_XY01),   \* RG_16_16_FLOAT
    PixelFormatMake1(LAYOUT_16_16, SIGN_UNORM, SWIZZLE_XY01),   \* RG_16_16_UNORM
    PixelFormatMake1(LAYOUT_16_16, SIGN_UINT, SWIZZLE_XY01),   \* RG_16_16_UINT
    PixelFormatMake1(LAYOUT_16_16, SIGN_SNORM, SWIZZLE_XY01),   \* RG_16_16_SNORM
    PixelFormatMake1(LAYOUT_16_16, SIGN_SINT, SWIZZLE_XY01),   \* RG_16_16_SINT
    PixelFormatMake1(LAYOUT_32, SIGN_UINT, SWIZZLE_X001),   \* R_32_UINT
    PixelFormatMake1(LAYOUT_32, SIGN_FLOAT, SWIZZLE_X001),   \* R_32_FLOAT
    PixelFormatMake1(LAYOUT_32, SIGN_FLOAT, SWIZZLE_X001),   \* R_32_FLOAT
    PixelFormatMake1(LAYOUT_32, SIGN_UINT, SWIZZLE_X001),   \* R_32_UINT
    PixelFormatMake1(LAYOUT_32, SIGN_SINT, SWIZZLE_X001),   \* R_32_SINT
    PixelFormatMake4(LAYOUT_24_8, SIGN_UNORM, SIGN_UINT, SIGN_UINT, SWIZZLE_XY01),   \* RG_24_8_UINT
    PixelFormatMake4(LAYOUT_24_8, SIGN_UNORM, SIGN_UINT, SIGN_UINT, SWIZZLE_XY01),   \* RG_24_UNORM_8_UINT
    PixelFormatMake4(LAYOUT_24_8, SIGN_UNORM, SIGN_UINT, SIGN_UINT, SWIZZLE_XY01),   \* RX_24_8_UNORM
    PixelFormatMake4(LAYOUT_24_8, SIGN_UNORM, SIGN_UINT, SIGN_UINT, SWIZZLE_0Y01),   \* XG_24_8_UINT
    PixelFormatMake1(LAYOUT_8_8, SIGN_UINT, SWIZZLE_XY01),   \* RG_8_8_UINT
    RG_8_8_UNORM,
    PixelFormatMake1(LAYOUT_8_8, SIGN_UINT, SWIZZLE_XY01),   \* RG_8_8_UINT
    PixelFormatMake1(LAYOUT_8_8, SIGN_SNORM, SWIZZLE_XY01),   \* RG_8_8_SNORM
    PixelFormatMake1(LAYOUT_8_8, SIGN_SINT, SWIZZLE_XY01),   \* RG_8_8_SINT
    R_16_UINT,
    PixelFormatMake1(LAYOUT_16, SIGN_FLOAT, SWIZZLE_X001),   \* R_16_FLOAT
    PixelFormatMake1(LAYOUT_16, SIGN_UNORM, SWIZZLE_X001),   \* R_16_UNORM
    PixelFormatMake1(LAYOUT_16, SIGN_UNORM, SWIZZLE_X001),   \* R_16_UNORM
    R_16_UINT,
    PixelFormatMake1(LAYOUT_16, SIGN_SNORM, SWIZZLE_X001),   \* R_16_SNORM
    PixelFormatMake1(LAYOUT_16, SIGN_SINT, SWIZZLE_X001),   \* R_16_SINT
    PixelFormatMake1(LAYOUT_8, SIGN_UINT, SWIZZLE_X001),   \* R_8_UINT
    R_8_UNORM,
    PixelFormatMake1(LAYOUT_8, SIGN_UINT, SWIZZLE_X001),   \* R_8_UINT
    PixelFormatMake1(LAYOUT_8, SIGN_SNORM, SWIZZLE_X001),   \* R_8_SNORM
    PixelFormatMake1(LAYOUT_8, SIGN_SINT, SWIZZLE_X001),   \* R_8_SINT
    PixelFormatMake1(LAYOUT_8, SIGN_UNORM, SWIZZLE_111X),   \* A_8_UNORM
    UNKNOWN,
    UNKNOWN,
    UNKNOWN,
    UNKNOWN,
    PixelFormatMake1(LAYOUT_BC1, SIGN_UINT, SWIZZLE_XYZ1),   \* DXT1_UINT
    BC1_UNORM,   \* DXT1_UNORM
    PixelFormatMake2(LAYOUT_BC1, SIGN_GNORM, SIGN_UNORM, SWIZZLE_XYZ1),   \* DXT1_SRGB
    PixelFormatMake1(LAYOUT_BC2, SIGN_UINT, SWIZZLE_XYZW),   \* DXT2_UINT
    PixelFormatMake1(LAYOUT_BC2, SIGN_UNORM, SWIZZLE_XYZW),   \* DXT2_UNORM
    PixelFormatMake2(LAYOUT_BC2, SIGN_GNORM, SIGN_UNORM, SWIZZLE_XYZW),   \* DXT2_SRGB
    PixelFormatMake1(LAYOUT_BC3, SIGN_UINT, SWIZZLE_XYZW),   \* DXT3_UINT
    PixelFormatMake1(LAYOUT_BC3, SIGN_UNORM, SWIZZLE_XYZW),   \* DXT3_UNORM
    PixelFormatMake2(LAYOUT_BC3, SIGN_GNORM, SIGN_UNORM, SWIZZLE_XYZW),   \* DXT3_SRGB
    PixelFormatMake1(LAYOUT_BC4, SIGN_UINT, SWIZZLE_X001),   \* DXT4_UINT
    PixelFormatMake1(LAYOUT_BC4, SIGN_UNORM, SWIZZLE_X001),   \* DXT4_UNORM
    PixelFormatMake1(LAYOUT_BC4, SIGN_SNORM, SWIZZLE_X001),   \* DXT4_SNORM
    PixelFormatMake1(LAYOUT_BC5, SIGN_UINT, SWIZZLE_XY00),   \* DXT5_UINT
    PixelFormatMake1(LAYOUT_BC5, SIGN_UNORM, SWIZZLE_XY00),   \* DXT5_UNORM
    PixelFormatMake1(LAYOUT_BC5, SIGN_SNORM, SWIZZLE_XY00),   \* DXT5_SNORM
    PixelFormatMake1(LAYOUT_5_6_5, SIGN_UNORM, SWIZZLE_ZYX1),   \* BGR_5_6_5_UNORM
    PixelFormatMake1(LAYOUT_5_5_5_1, SIGN_UNORM, SWIZZLE_ZYXW),   \* BGRA_5_5_5_1_UNORM
    PixelFormatMake1(LAYOUT_8_8_8_8, SIGN_UNORM, SWIZZLE_ZYXW),   \* BGRA_8_8_8_8_UNORM
    UNKNOWN
   >>

\* PixelFormat::fromDXGI(dxgiFormat)
fromDXGI(dxgiFormat) ==
   IF 0 <= dxgiFormat /\ dxgiFormat < Len(DXGI_FORMATS) THEN DXGI_FORMATS[dxgiFormat + 1] ELSE UNKNOWN

\* enum DdsFlag
DDS_DDPF_SIZE == 32

DDS_DDPF_ALPHAPIXELS == 1

DDS_DDPF_ALPHA == 2

DDS_DDPF_FOURCC == 4

DDS_DDPF_PALETTEINDEXED8 == 32

DDS_DDPF_RGB == 64

DDS_DDPF_ZBUFFER == 1024

DDS_DDPF_STENCILBUFFER == 16384

DDS_DDPF_LUMINANCE == 131072

DDS_DDPF_BUMPLUMINANCE == 262144

DDS_DDPF_BUMPDUDV == 524288

DDS_DDSD_HEIGHT == 2

DDS_DDSD_WIDTH == 4

DDS_DDSD_MIPMAPCOUNT == 131072

DDS_DDSD_DEPTH == 8388608

DDS_CAPS_COMPLEX == 8

DDS_CAPS_MIPMAP == 4194304

DDS_CAPS2_CUBEMAP == 512

DDS_CAPS2_CUBEMAP_ALLFACES == 64512

DDS_CAPS2_VOLUME == 2097152

DDS_FOURCC_DXT1 == 68 + 88 * 256 + 84 * 65536 + 49 * 16777216

DDS_FOURCC_DXT2 == 68 + 88 * 256 + 84 * 65536 + 50 * 16777216

DDS_FOURCC_DXT3 == 68 + 88 * 256 + 84 * 65536 + 51 * 16777216

DDS_FOURCC_DXT4 == 68 + 88 * 256 + 84 * 65536 + 52 * 16777216

DDS_FOURCC_DXT5 == 68 + 88 * 256 + 84 * 65536 + 53 * 16777216

DDS_FOURCC_ABGR_16_16_16_16 == 36

DDS_FOURCC_Q16W16V16U16 == 110

DDS_FOURCC_R16F == 111

DDS_FOURCC_GR_16_16F == 112

\* s_ddpfDescTable; a mask with bit 31 set is carried as its 32-bit
\* two's-complement representative, it is only ever compared for equality.
s_ddpfDescTable ==
   <<
    [format |-> PixelFormatMake1(LAYOUT_8_8_8, SIGN_UNORM, SWIZZLE_ZYX1),   \* BGR_8_8_8_UNORM
     ddpf |-> [size |-> DDS_DDPF_SIZE, flags |-> DDS_DDPF_RGB, fourcc |-> 0,
        bits |-> 24, rMask |-> 16711680, gMask |-> 65280, bMask |-> 255, aMask |-> 0]],
    [format |-> PixelFormatMake1(LAYOUT_8_8_8_8, SIGN_UNORM, SWIZZLE_ZYXW),   \* BGRA_8_8_8_8_UNORM
     ddpf |-> [size |-> DDS_DDPF_SIZE, flags |-> DDS_DDPF_RGB + DDS_DDPF_ALPHAPIXELS, fourcc |-> 0,
        bits |-> 32, rMask |-> 16711680, gMask |-> 65280, bMask |-> 255, aMask |-> -16777216]],
    [format |-> PixelFormatMake1(LAYOUT_8_8_8_8, SIGN_UNORM, SWIZZLE_ZYX1),   \* BGRX_8_8_8_8_UNORM
     ddpf |-> [size |-> DDS_DDPF_SIZE, flags |-> DDS_DDPF_RGB, fourcc |-> 0,
        bits |-> 32, rMask |-> 16711680, gMask |-> 65280, bMask |-> 255, aMask |-> 0]],
    [format |-> PixelFormatMake1(LAYOUT_5_6_5, SIGN_UNORM, SWIZZLE_ZYX1),   \* BGR_5_6_5_UNORM
     ddpf |-> [size |-> DDS_DDPF_SIZE, flags |-> DDS_DDPF_RGB, fourcc |-> 0,
        bits |-> 16, rMask |-> 63488, gMask |-> 2016, bMask |-> 31, aMask |-> 0]],
    [format |-> PixelFormatMake1(LAYOUT_5_5_5_1, SIGN_UNORM, SWIZZLE_ZYX1),   \* BGRX_5_5_5_1_UNORM
     ddpf |-> [size |-> DDS_DDPF_SIZE, flags |-> DDS_DDPF_RGB, fourcc |-> 0,
        bits |-> 16, rMask |-> 31744, gMask |-> 992, bMask |-> 31, aMask |-> 0]],
    [format |-> PixelFormatMake1(LAYOUT_5_5_5_1, SIGN_UNORM, SWIZZLE_ZYXW),   \* BGRA_5_5_5_1_UNORM
     ddpf |-> [size |-> DDS_DDPF_SIZE, flags |-> DDS_DDPF_RGB + DDS_DDPF_ALPHAPIXELS, fourcc |-> 0,
        bits |-> 16, rMask |-> 31744, gMask |-> 992, bMask |-> 31, aMask |-> 32768]],
    [format |-> PixelFormatMake1(LAYOUT_4_4_4_4, SIGN_UNORM, SWIZZLE_ZYXW),   \* BGRA_4_4_4_4_UNORM
     ddpf |-> [size |-> DDS_DDPF_SIZE, flags |-> DDS_DDPF_RGB + DDS_DDPF_ALPHAPIXELS, fourcc |-> 0,
        bits |-> 16, rMask |-> 3840, gMask |-> 240, bMask |-> 15, aMask |-> 61440]],
    [format |-> PixelFormatMake1(LAYOUT_8, SIGN_UNORM, SWIZZLE_111X),   \* A_8_UNORM
     ddpf |-> [size |-> DDS_DDPF_SIZE, flags |-> DDS_DDPF_ALPHA, fourcc |-> 0,
        bits |-> 8, rMask |-> 0, gMask |-> 0, bMask |-> 0, aMask |-> 255]],
    [format |-> PixelFormatMake1(LAYOUT_4_4_4_4, SIGN_UNORM, SWIZZLE_ZYX1),   \* BGRX_4_4_4_4_UNORM
     ddpf |-> [size |-> DDS_DDPF_SIZE, flags |-> DDS_DDPF_RGB, fourcc |-> 0,
        bits |-> 16, rMask |-> 3840, gMask |-> 240, bMask |-> 15, aMask |-> 0]],
    [format |-> PixelFormatMake1(LAYOUT_10_10_10_2, SIGN_UNORM, SWIZZLE_ZYXW),   \* BGRA_10_10_10_2_UNORM
     ddpf |-> [size |-> DDS_DDPF_SIZE, flags |-> DDS_DDPF_RGB + DDS_DDPF_ALPHAPIXELS, fourcc |-> 0,
        bits |-> 32, rMask |-> 1072693248, gMask |-> 1047552, bMask |-> 1023, aMask |-> -1073741824]],
    [format |-> RGBA_8_8_8_8_UNORM,   \* RGBA_8_8_8_8_UNORM
     ddpf |-> [size |-> DDS_DDPF_SIZE, flags |-> DDS_DDPF_RGB + DDS_DDPF_ALPHAPIXELS, fourcc |-> 0,
        bits |-> 32, rMask |-> 255, gMask |-> 65280, bMask |-> 16711680, aMask |-> -16777216]],
    [format |-> PixelFormatMake1(LAYOUT_8_8_8_8, SIGN_UNORM, SWIZZLE_XYZ1),   \* RGBX_8_8_8_8_UNORM
     ddpf |-> [size |-> DDS_DDPF_SIZE, flags |-> DDS_DDPF_RGB, fourcc |-> 0,
        bits |-> 32, rMask |-> 255, gMask |-> 65280, bMask |-> 16711680, aMask |-> 0]],
    [format |-> PixelFormatMake1(LAYOUT_16_16, SIGN_UNORM, SWIZZLE_XY01),   \* RG_16_16_UNORM
     ddpf |-> [size |-> DDS_DDPF_SIZE, flags |-> DDS_DDPF_RGB, fourcc |-> 0,
        bits |-> 32, rMask |-> 65535, gMask |-> -65536, bMask |-> 0, aMask |-> 0]],
    [format |-> PixelFormatMake1(LAYOUT_10_10_10_2, SIGN_UNORM, SWIZZLE_XYZW),   \* RGBA_10_10_10_2_UNORM
     ddpf |-> [size |-> DDS_DDPF_SIZE, flags |-> DDS_DDPF_RGB + DDS_DDPF_ALPHAPIXELS, fourcc |-> 0,
        bits |-> 32, rMask |-> 1023, gMask |-> 1047552, bMask |-> 1072693248, aMask |-> -1073741824]],
    [format |-> PixelFormatMake1(LAYOUT_8, SIGN_UNORM, SWIZZLE_XXX1),   \* L_8_UNORM
     ddpf |-> [size |-> DDS_DDPF_SIZE, flags |-> DDS_DDPF_LUMINANCE, fourcc |-> 0,
        bits |-> 8, rMask |-> 255, gMask |-> 0, bMask |-> 0, aMask |-> 0]],
    [format |-> PixelFormatMake1(LAYOUT_8_8, SIGN_UNORM, SWIZZLE_XXXY),   \* LA_8_8_UNORM
     ddpf |-> [size |-> DDS_DDPF_SIZE, flags |-> DDS_DDPF_LUMINANCE + DDS_DDPF_ALPHAPIXELS, fourcc |-> 0,
        bits |-> 16, rMask |-> 255, gMask |-> 0, bMask |-> 0, aMask |-> 65280]],
    [format |-> PixelFormatMake1(LAYOUT_8_8, SIGN_SNORM, SWIZZLE_XY01),   \* RG_8_8_SNORM
     ddpf |-> [size |-> DDS_DDPF_SIZE, flags |-> DDS_DDPF_BUMPDUDV, fourcc |-> 0,
        bits |-> 16, rMask |-> 255, gMask |-> 65280, bMask |-> 0, aMask |-> 0]],
    [format |-> PixelFormatMake1(LAYOUT_8_8_8_8, SIGN_SNORM, SWIZZLE_XYZW),   \* RGBA_8_8_8_8_SNORM
     ddpf |-> [size |-> DDS_DDPF_SIZE, flags |-> DDS_DDPF_BUMPDUDV, fourcc |-> 0,
        bits |-> 32, rMask |-> 255, gMask |-> 65280, bMask |-> 16711680, aMask |-> -16777216]],
    [format |-> PixelFormatMake1(LAYOUT_16_16, SIGN_UNORM, SWIZZLE_XY01),   \* RG_16_16_UNORM
     ddpf |-> [size |-> DDS_DDPF_SIZE, flags |-> DDS_DDPF_BUMPDUDV, fourcc |-> 0,
        bits |-> 32, rMask |-> 65535, gMask |-> -65536, bMask |-> 0, aMask |-> 0]],
    [format |-> PixelFormatMake1(LAYOUT_16, SIGN_UNORM, SWIZZLE_X001),   \* R_16_UNORM
     ddpf |-> [size |-> DDS_DDPF_SIZE, flags |-> DDS_DDPF_ZBUFFER, fourcc |-> 0,
        bits |-> 16, rMask |-> 0, gMask |-> 65535, bMask |-> 0, aMask |-> 0]],
    [format |-> BC1_UNORM,   \* DXT1_UNORM
     ddpf |-> [size |-> DDS_DDPF_SIZE, flags |-> DDS_DDPF_FOURCC, fourcc |-> DDS_FOURCC_DXT1,
        bits |-> 0, rMask |-> 0, gMask |-> 0, bMask |-> 0, aMask |-> 0]],
    [format |-> PixelFormatMake1(LAYOUT_BC3, SIGN_UNORM, SWIZZLE_XYZW),   \* DXT3_UNORM
     ddpf |-> [size |-> DDS_DDPF_SIZE, flags |-> DDS_DDPF_FOURCC, fourcc |-> DDS_FOURCC_DXT2,
        bits |-> 0, rMask |-> 0, gMask |-> 0, bMask |-> 0, aMask |-> 0]],
    [format |-> PixelFormatMake1(LAYOUT_BC3, SIGN_UNORM, SWIZZLE_XYZW),   \* DXT3_UNORM
     ddpf |-> [size |-> DDS_DDPF_SIZE, flags |-> DDS_DDPF_FOURCC, fourcc |-> DDS_FOURCC_DXT3,
        bits |-> 0, rMask |-> 0, gMask |-> 0, bMask |-> 0, aMask |-> 0]],
    [format |-> PixelFormatMake1(LAYOUT_BC5, SIGN_UNORM, SWIZZLE_XY00),   \* DXT5_UNORM
     ddpf |-> [size |-> DDS_DDPF_SIZE, flags |-> DDS_DDPF_FOURCC, fourcc |-> DDS_FOURCC_DXT4,
        bits |-> 0, rMask |-> 0, gMask |-> 0, bMask |-> 0, aMask |-> 0]],
    [format |-> PixelFormatMake1(LAYOUT_BC5, SIGN_UNORM, SWIZZLE_XY00),   \* DXT5_UNORM
     ddpf |-> [size |-> DDS_DDPF_SIZE, flags |-> DDS_DDPF_FOURCC, fourcc |-> DDS_FOURCC_DXT5,
        bits |-> 0, rMask |-> 0, gMask |-> 0, bMask |-> 0, aMask |-> 0]],
    [format |-> PixelFormatMake1(LAYOUT_16_16_16_16, SIGN_UNORM, SWIZZLE_XYZW),   \* RGBA_16_16_16_16_UNORM
     ddpf |-> [size |-> DDS_DDPF_SIZE, flags |-> DDS_DDPF_FOURCC, fourcc |-> DDS_FOURCC_ABGR_16_16_16_16,
        bits |-> 0, rMask |-> 0, gMask |-> 0, bMask |-> 0, aMask |-> 0]],
    [format |-> PixelFormatMake1(LAYOUT_16_16_16_16, SIGN_SNORM, SWIZZLE_XYZW),   \* RGBA_16_16_16_16_SNORM
     ddpf |-> [size |-> DDS_DDPF_SIZE, flags |-> DDS_DDPF_FOURCC, fourcc |-> DDS_FOURCC_Q16W16V16U16,
        bits |-> 0, rMask |-> 0, gMask |-> 0, bMask |-> 0, aMask |-> 0]],
    [format |-> PixelFormatMake1(LAYOUT_16, SIGN_FLOAT, SWIZZLE_X001),   \* R_16_FLOAT
     ddpf |-> [size |-> DDS_DDPF_SIZE, flags |-> DDS_DDPF_FOURCC, fourcc |-> DDS_FOURCC_R16F,
        bits |-> 0, rMask |-> 0, gMask |-> 0, bMask |-> 0, aMask |-> 0]],
    [format |-> PixelFormatMake1(LAYOUT_16_16, SIGN_FLOAT, SWIZZLE_XY01),   \* RG_16_16_FLOAT
     ddpf |-> [size |-> DDS_DDPF_SIZE, flags |-> DDS_DDPF_FOURCC, fourcc |-> DDS_FOURCC_GR_16_16F,
        bits |-> 0, rMask |-> 0, gMask |-> 0, bMask |-> 0, aMask |-> 0]]
   >>


\* ------------------------------------------------------------------------
\* PlaneDesc
\* ------------------------------------------------------------------------
\* A default constructed PlaneDesc.
EmptyPlane ==
   [format |-> UNKNOWN, extent |-> [w |-> 0, h |-> 0, d |-> 0],
    step |-> 0, pitch |-> 0, slice |-> 0, size |-> 0, offset |-> 0, alignment |-> 4]

\* Extent3D::empty()
ExtentEmpty(e) == e.w = 0 \/ e.h = 0 \/ e.d = 0

\* PlaneDesc::empty()
PlaneEmpty(p) == p.format = UNKNOWN

\* A variant of nextMultiple that rounds down instead of up.
nextMultipleDown(value, multiple) ==
   LET m == IF multiple = 0 THEN 1 ELSE multiple
   IN  value - (value % m)

\* nextMultiple(value, multiple)
nextMultiple(value, multiple) ==
   LET m == IF multiple = 0 THEN 1 ELSE multiple
   IN  value + ((m - (value % m)) % m)

\* PlaneDesc::valid()
PlaneValid(p) ==
   /\ FormatValid(p.format)
   /\ ~ExtentEmpty(p.extent)
   /\ LET cld == layoutDesc(p.format)
          numBlocksPerRow == (p.extent.w + cld.blockWidth - 1) \div cld.blockWidth
          numBlocksPerCol == (p.extent.h + cld.blockHeight - 1) \div cld.blockHeight
      IN  /\ ~(p.step < cld.blockBytes)
          /\ ~(p.pitch < numBlocksPerRow * cld.blockBytes)
          /\ ~(p.slice < numBlocksPerCol * numBlocksPerRow * cld.blockBytes)
          /\ ~(p.size < p.slice * p.extent.d)
   /\ p.alignment # 0
   /\ p.offset % p.alignment = 0
   /\ p.pitch % p.alignment = 0
   /\ p.slice % p.alignment = 0

\* A variant of setSpacing that does not round the pitch up to the alignment.
setSpacingUnrounded(p, step_, pitch_, slice_, alignment_) ==
   LET fd == layoutDesc(p.format)
       numBlocksPerRow == (p.extent.w + fd.blockWidth - 1) \div fd.blockWidth
       numBlocksPerCol == (p.extent.h + fd.blockHeight - 1) \div fd.blockHeight
       alignment == IF alignment_ # 0 THEN alignment_ ELSE 4
       step == Max(step_, fd.blockBytes)
       pitch == Max(step * numBlocksPerRow, pitch_)
       slice == nextMultiple(Max(pitch * numBlocksPerCol, slice_), alignment)
   IN  [p EXCEPT !.alignment = alignment, !.step = step, !.pitch = pitch,
                 !.slice = slice, !.size = slice * p.extent.d]

\* A variant of setSpacing that always takes the block size as the step.
setSpacingTightStep(p, step_, pitch_, slice_, alignment_) ==
   LET fd == layoutDesc(p.format)
       numBlocksPerRow == (p.extent.w + fd.blockWidth - 1) \div fd.blockWidth
       numBlocksPerCol == (p.extent.h + fd.blockHeight - 1) \div fd.blockHeight
       alignment == IF alignment_ # 0 THEN alignment_ ELSE 4
       step == fd.blockBytes
       pitch == nextMultiple(Max(step * numBlocksPerRow, pitch_), alignment)
       slice == nextMultiple(Max(pitch * numBlocksPerCol, slice_), alignment)
   IN  [p EXCEPT !.alignment = alignment, !.step = step, !.pitch = pitch,
                 !.slice = slice, !.size = slice * p.extent.d]

\* PlaneDesc::setSpacing(step_, pitch_, slice_, alignment_) applied to plane p.
setSpacing(p, step_, pitch_, slice_, alignment_) ==
   LET fd == layoutDesc(p.format)
       numBlocksPerRow == (p.extent.w + fd.blockWidth - 1) \div fd.blockWidth
       numBlocksPerCol == (p.extent.h + fd.blockHeight - 1) \div fd.blockHeight
       alignment == IF alignment_ # 0 THEN alignment_ ELSE 4
       step == Max(step_, fd.blockBytes)
       pitch == nextMultiple(Max(step * numBlocksPerRow, pitch_), alignment)
       slice == nextMultiple(Max(pitch * numBlocksPerCol, slice_), alignment)
   IN  [p EXCEPT !.alignment = alignment, !.step = step, !.pitch = pitch,
                 !.slice = slice, !.size = slice * p.extent.d]

\* PlaneDesc::make(format, extent, step, pitch, slice, alignment)
PlaneDescMake(format, extent, step, pitch, slice, alignment) ==
   IF ~FormatValid(format) THEN EmptyPlane
   ELSE LET p == [EmptyPlane EXCEPT !.format = format,
                     !.extent = [w |-> IF extent.w # 0 THEN extent.w ELSE 1,
                                 h |-> IF extent.h # 0 THEN extent.h ELSE 1,
                                 d |-> IF extent.d # 0 THEN extent.d ELSE 1]]
        IN  setSpacing(p, step, pitch, slice, alignment)

\* The two assertions at the end of PlaneDesc::make.
PlaneMakeAsserts(p) ==
   /\ p.alignment > 0 /\ p.step > 0 /\ p.pitch > 0 /\ p.slice > 0 /\ p.size > 0
   /\ PlaneValid(p)

\* ------------------------------------------------------------------------
\* ImageDesc
\* ------------------------------------------------------------------------
DEFAULT_PLANE_ALIGNMENT == 16

FACE_MAJOR == 0

MIP_MAJOR == 1

\* A default constructed ImageDesc.
DefaultDesc ==
   [planes |-> <<>>, arrayLength |-> 0, faces |-> 0, levels |-> 0, alignment |-> 0, size |-> 0]

\* A variant of clear() that drops the planes but keeps the byte size.
ImageDescClearPlanes(d) ==
   [planes |-> <<>>, arrayLength |-> 0, faces |-> 0, levels |-> 0,
    alignment |-> DEFAULT_PLANE_ALIGNMENT, size |-> d.size]

\* ImageDesc::clear()
ImageDescClear(d) ==
   [planes |-> <<>>, arrayLength |-> 0, faces |-> 0, levels |-> 0,
    alignment |-> DEFAULT_PLANE_ALIGNMENT, size |-> 0]

\* ImageDesc::empty()
DescEmpty(d) == Len(d.planes) = 0

\* ImageDesc::index(a, f, l); planes are numbered from 0 in the source and
\* kept in a sequence here, so plane i of the source is d.planes[i + 1].
index(d, a, f, l) == a * d.faces * d.levels + f * d.levels + l

\* A variant of coord3 that takes the face as the fastest-changing coordinate.
coord3FaceFastest(d, i) == <<i \div (d.faces * d.levels), i % d.faces, (i \div d.faces) % d.levels>>

\* ImageDesc::coord3(index), as <<a, f, l>>
coord3(d, i) == <<i \div (d.faces * d.levels), (i \div d.levels) % d.faces, i % d.levels>>

\* ImageDesc::plane({a, f, l})
PlaneAt(d, a, f, l) == d.planes[index(d, a, f, l) + 1]

\* ImageDesc::valid()
DescValid(d) ==
   IF Len(d.planes) = 0
   THEN ~(d.levels # 0 \/ d.faces # 0 \/ d.arrayLength # 0 \/ d.size # 0)
   ELSE /\ d.alignment # 0
        /\ d.arrayLength * d.faces * d.levels = Len(d.planes)
        /\ \A a \in 0..(d.arrayLength - 1), f \in 0..(d.faces - 1), l \in 0..(d.levels - 1) :
              /\ PlaneValid(PlaneAt(d, a, f, l))
              /\ ~(PlaneAt(d, a, f, l).offset + PlaneAt(d, a, f, l).size > d.size)

\* The loop in ImageDesc::reset that counts the mipmap levels of the base map.
\* A variant of the level count that stops as soon as one dimension reaches 1.
RECURSIVE CountLevelsUntilAnyOne(_, _, _, _)
CountLevelsUntilAnyOne(w, h, d, maxLevels) ==
   IF w > 1 /\ h > 1 /\ d > 1
   THEN CountLevelsUntilAnyOne(w \div 2, h \div 2, d \div 2, maxLevels + 1)
   ELSE maxLevels

RECURSIVE CountLevels(_, _, _, _)
CountLevels(w, h, d, maxLevels) ==
   IF w > 1 \/ h > 1 \/ d > 1
   THEN CountLevels(IF w > 1 THEN w \div 2 ELSE w,
                    IF h > 1 THEN h \div 2 ELSE h,
                    IF d > 1 THEN d \div 2 ELSE d, maxLevels + 1)
   ELSE maxLevels

\* "next level" in ImageDesc::reset: halve the extent and recompute the spacing.
NextMip(mip) ==
   PlaneDescMake(mip.format,
                 [w |-> IF mip.extent.w > 1 THEN mip.extent.w \div 2 ELSE mip.extent.w,
                  h |-> IF mip.extent.h > 1 THEN mip.extent.h \div 2 ELSE mip.extent.h,
                  d |-> IF mip.extent.d > 1 THEN mip.extent.d \div 2 ELSE mip.extent.d],
                 mip.step, 0, 0, 4)

\* The mip planes of one chain, level 0 (the base map) to level n - 1.
RECURSIVE MipChain(_, _)
MipChain(baseMap, n) ==
   IF n = 0 THEN <<>>
   ELSE IF n = 1 THEN <<baseMap>>
   ELSE LET c == MipChain(baseMap, n - 1) IN Append(c, NextMip(c[n - 1]))

\* A variant of the loop nests that walks both orders face by face.
VisitCoordFaceMajor(order, F, L, k) == <<k \div (F * L), (k \div L) % F, k % L>>

\* The k-th plane (k from 0) the loops of ImageDesc::reset visit, as <<a, f, m>>.
VisitCoord(order, F, L, k) ==
   IF order = MIP_MAJOR
   THEN <<k \div (F * L), k % F, (k \div F) % L>>
   ELSE <<k \div (F * L), (k \div L) % F, k % L>>

\* A variant of the offset step that packs the planes without padding.
AdvanceOffsetPacked(mip, alignment) == mip.offset + mip.size

\* A variant that rounds the offset of the plane up and then adds its size.
AdvanceOffsetBySize(mip, alignment) == nextMultiple(mip.offset, alignment) + mip.size

\* offset = nextMultiple(mip.offset + mip.size, alignment)
AdvanceOffset(mip, alignment) == nextMultiple(mip.offset + mip.size, alignment)

\* A variant of the loop nests that stores the k-th visited plane at index k
\* instead of index(a, f, m).
RECURSIVE LayoutPlanesInVisitOrder(_, _, _, _, _, _, _, _)
LayoutPlanesInVisitOrder(chain, order, F, L, alignment, k, offset, planes) ==
   IF k = Len(planes) THEN [planes |-> planes, offset |-> offset]
   ELSE LayoutPlanesInVisitOrder(chain, order, F, L, alignment, k + 1,
                                 AdvanceOffset([chain[VisitCoord(order, F, L, k)[3] + 1] EXCEPT !.offset = offset],
                                               alignment),
                                 [planes EXCEPT ![k + 1] = [chain[VisitCoord(order, F, L, k)[3] + 1]
                                                               EXCEPT !.offset = offset]])

\* The two loop nests of ImageDesc::reset: visit the planes in construction
\* order, stamp the running offset, store the plane at index(a, f, m).
RECURSIVE LayoutPlanes(_, _, _, _, _, _, _, _)
LayoutPlanes(chain, order, F, L, alignment, k, offset, planes) ==
   IF k = Len(planes) THEN [planes |-> planes, offset |-> offset]
   ELSE LET c == VisitCoord(order, F, L, k)
            mip == [chain[c[3] + 1] EXCEPT !.offset = offset]
            i == c[1] * F * L + c[2] * L + c[3]
        IN  LayoutPlanes(chain, order, F, L, alignment, k + 1, AdvanceOffset(mip, alignment),
                         [planes EXCEPT ![i + 1] = mip])

\* ImageDesc::reset(baseMap, arrayLength_, faces_, levels_, order, alignment_)
ImageDescReset(d, baseMap, arrayLength_, faces_, levels_, order, alignment_) ==
   LET cleared == ImageDescClear(d)
       al == IF alignment_ = 0 THEN baseMap.alignment ELSE alignment_
   IN  IF ~PlaneValid(baseMap) THEN cleared
       ELSE IF al % baseMap.alignment # 0 THEN cleared
       ELSE LET A == IF arrayLength_ = 0 THEN 1 ELSE arrayLength_
                F == IF faces_ = 0 THEN 1 ELSE faces_
                maxLevels == CountLevels(baseMap.extent.w, baseMap.extent.h, baseMap.extent.d, 1)
                L == IF levels_ = 0 \/ levels_ > maxLevels THEN maxLevels ELSE levels_
                r == LayoutPlanes(MipChain(baseMap, L), order, F, L, al, 0, 0,
                                  [i \in 1..(A * F * L) |-> EmptyPlane])
            IN  [planes |-> r.planes, arrayLength |-> A, faces |-> F, levels |-> L,
                 alignment |-> al, size |-> r.offset]

\* The assertions ImageDesc::reset evaluates (RII_ASSERT, debug builds only):
\* those at the end of each PlaneDesc::make call of the mip loop, and valid()
\* at the end of reset.  TRUE when one of them fails.
ResetAssertFails(baseMap, alignment_, result) ==
   /\ PlaneValid(baseMap)
   /\ (IF alignment_ = 0 THEN baseMap.alignment ELSE alignment_) % baseMap.alignment = 0
   /\ \/ ~DescValid(result)
      \/ \E m \in 2..(result.levels + 1) : ~PlaneMakeAsserts(MipChain(baseMap, result.levels + 1)[m])

\* ------------------------------------------------------------------------
\* Memory images of the structures the codecs read and write
\* ------------------------------------------------------------------------
\* The four bytes of a uint32_t on a little-endian target.  A value with bit
\* 31 set is carried as its two's-complement representative.
LE32(v) ==
   <<v % 256, (v \div 256) % 256, (v \div 65536) % 256,
     IF v < 0 THEN (v \div 16777216) + 256 ELSE v \div 16777216>>

\* The uint32_t stored at byte offset o of the byte sequence b.
U32(b, o) ==
   b[o + 1] + b[o + 2] * 256 + b[o + 3] * 65536
      + (IF b[o + 4] >= 128 THEN b[o + 4] - 256 ELSE b[o + 4]) * 16777216

\* The uint64_t stored at byte offset o of b.
U64(b, o) == U32(b, o) + U32(b, o + 4) * 65536 * 65536

\* Bit test: v & m for a mask m of one bit.
Bit(v, m) == (v \div m) % 2 = 1

\* The bit-field struct of PixelFormat as four bytes.
FormatBytes(f) ==
   <<f.layout + f.reserved0 * 128,
     f.sign0 + f.sign12 * 16,
     f.sign3 + f.swizzle0 * 16 + (f.swizzle1 % 2) * 128,
     (f.swizzle1 \div 2) + f.swizzle2 * 4 + f.swizzle3 * 32>>

\* The PixelFormat stored at byte offset o of b.
FormatAt(b, o) ==
   [layout |-> b[o + 1] % 128, reserved0 |-> b[o + 1] \div 128,
    sign0 |-> b[o + 2] % 16, sign12 |-> b[o + 2] \div 16,
    sign3 |-> b[o + 3] % 16, swizzle0 |-> (b[o + 3] \div 16) % 8,
    swizzle1 |-> (b[o + 3] \div 128) + (b[o + 4] % 4) * 2,
    swizzle2 |-> (b[o + 4] \div 4) % 8, swizzle3 |-> b[o + 4] \div 32]

\* sizeof(PlaneDesc)
SizeofPlaneDesc == 40

\* The memory image of a PlaneDesc: ten 32-bit fields in declaration order.
PlaneBytes(p) ==
   FormatBytes(p.format) \o LE32(p.extent.w) \o LE32(p.extent.h) \o LE32(p.extent.d)
      \o LE32(p.step) \o LE32(p.pitch) \o LE32(p.slice) \o LE32(p.size)
      \o LE32(p.offset) \o LE32(p.alignment)

\* The PlaneDesc stored at byte offset o of b.
PlaneAtBytes(b, o) ==
   [format |-> FormatAt(b, o),
    extent |-> [w |-> U32(b, o + 4), h |-> U32(b, o + 8), d |-> U32(b, o + 12)],
    step |-> U32(b, o + 16), pitch |-> U32(b, o + 20), slice |-> U32(b, o + 24),
    size |-> U32(b, o + 28), offset |-> U32(b, o + 32), alignment |-> U32(b, o + 36)]

RECURSIVE PlanesBytes(_, _)
\* The memory image of a vector of PlaneDesc, from element i on.
PlanesBytes(planes, i) ==
   IF i > Len(planes) THEN <<>> ELSE PlaneBytes(planes[i]) \o PlanesBytes(planes, i + 1)

\* ------------------------------------------------------------------------
\* RIL codec
\* ------------------------------------------------------------------------
\* sizeof(RILFileTag)
SizeofRILFileTag == 8

\* sizeof(RILHeaderV1), packed to 4 bytes
SizeofRILHeaderV1 == 36

\* RILFileTag(version): 'R' 'I' 'L' '_' and the version.
RILFileTag(version) == <<82, 73, 76, 95>> \o LE32(version)

\* RILFileTag::valid() of the tag stored at the start of b.
RILFileTagValid(b) ==
   b[1] = 82 /\ b[2] = 73 /\ b[3] = 76 /\ b[4] = 95 /\ U32(b, 4) > 0

\* The memory image of the RILHeaderV1 saveToRIL fills in for d.
RILHeaderV1(d) ==
   LE32(SizeofRILHeaderV1) \o LE32(SizeofPlaneDesc) \o LE32(SizeofRILFileTag + SizeofRILHeaderV1)
      \o LE32(d.arrayLength) \o LE32(d.faces) \o LE32(d.levels) \o LE32(d.alignment)
      \o LE32(d.size) \o LE32(0)

\* saveToRIL(desc, stream, pixels): the bytes written; thrown is TRUE when it
\* raises instead.  A null pixel pointer is the empty sequence.
saveToRIL(d, px) ==
   IF DescEmpty(d) \/ ~DescValid(d) THEN [thrown |-> TRUE, bytes |-> <<>>]
   ELSE IF px = <<>> THEN [thrown |-> TRUE, bytes |-> <<>>]
   ELSE [thrown |-> FALSE,
         bytes |-> RILFileTag(1) \o RILHeaderV1(d) \o PlanesBytes(d.planes, 1) \o SubSeq(px, 1, d.size)]

\* rii_details::aalloc(a, s) is aligned_alloc(a, s): it may return null when a
\* is not a power of two (the C library decides) and when s bytes cannot be
\* had; requests of 2^30 bytes stand for the sizes up to 2^64 - 1 a header can
\* ask for.  Smaller requests with a power-of-two alignment return a buffer.
aallocMayReturnNull(a, s) ==
   \/ ~(\E k \in 0..30 : a = 2 ^ k)
   \/ s >= 2 ^ 30

\* What a load call returns: ok with the descriptor to assign and the pixel
\* buffer, failed (a null buffer is returned, the descriptor is not
\* assigned), or crash (bytes of the stream are written through a null
\* pointer).  asked records an aalloc(a, s) request.
LoadFailed == [outcome |-> "failed", desc |-> DefaultDesc, pixels |-> <<>>, asked |-> FALSE, a |-> 0, s |-> 0]

\* A variant of the swap that exchanges bytes [1] and [3].
bgr2rgbAtOdd(i, size) ==
   IF i < (size \div 4) * 4 /\ i % 4 = 1 THEN i + 2
   ELSE IF i < (size \div 4) * 4 /\ i % 4 = 3 THEN i - 2
   ELSE i

\* The bgr -> rgb loop of loadFromDDS, std::swap(p[0], p[2]) on each of the
\* size / 4 pixels: the offset the byte at offset i of the buffer came from.
bgr2rgbAt(i, size) ==
   IF i < (size \div 4) * 4 /\ i % 4 = 0 THEN i + 2
   ELSE IF i < (size \div 4) * 4 /\ i % 4 = 2 THEN i - 2
   ELSE i

\* The read of the pixel blob into the buffer aalloc returned: size bytes from
\* byte offset from of b.  checkedRead fails when the stream holds fewer bytes;
\* with a null buffer, stream.read stores the first byte it has at address 0.
ReadPixels(b, from, d, allocOk, swap) ==
   IF ~allocOk
   THEN IF Len(b) > from
        THEN [outcome |-> "crash", desc |-> DefaultDesc, pixels |-> <<>>, asked |-> TRUE, a |-> d.alignment, s |-> d.size]
        ELSE [LoadFailed EXCEPT !.asked = TRUE, !.a = d.alignment, !.s = d.size]
   ELSE IF Len(b) - from < d.size
   THEN [LoadFailed EXCEPT !.asked = TRUE, !.a = d.alignment, !.s = d.size]
   ELSE [outcome |-> "ok", desc |-> d,
         pixels |-> [i \in 1..d.size |->
                       IF swap THEN b[from + bgr2rgbAt(i - 1, d.size) + 1] ELSE b[from + i]],
         asked |-> TRUE, a |-> d.alignment, s |-> d.size]

\* A variant of the version test that takes every version the tag allows.
IsVersion1OrLater(b) == U32(b, 4) >= 1

\* The version test of loadFromRIL: 1 == tag.version.
IsVersion1(b) == U32(b, 4) = 1

\* ImageDesc::loadFromRIL on a stream holding the bytes b, read from its start.
loadFromRIL(b, allocOk) ==
   IF Len(b) < SizeofRILFileTag THEN LoadFailed
   ELSE IF ~RILFileTagValid(b) THEN LoadFailed
   ELSE IF ~IsVersion1(b) THEN LoadFailed
   ELSE IF Len(b) < SizeofRILFileTag + SizeofRILHeaderV1 THEN LoadFailed
   ELSE
   LET headerSize == U32(b, 8)
       planeDescSize == U32(b, 12)
       offset == U32(b, 16)
       arrayLength == U32(b, 20)
       faces == U32(b, 24)
       levels == U32(b, 28)
       alignment == U32(b, 32)
       size == U64(b, 36)
       first == SizeofRILFileTag + SizeofRILHeaderV1
   IN  IF ~(/\ headerSize = SizeofRILHeaderV1 /\ planeDescSize = SizeofPlaneDesc
            /\ offset = SizeofRILFileTag + SizeofRILHeaderV1) THEN LoadFailed
       ELSE IF size = 0 \/ arrayLength = 0 \/ faces = 0 \/ levels = 0 THEN LoadFailed
       ELSE LET n == arrayLength * faces * levels
            IN  IF Len(b) < first + n * SizeofPlaneDesc THEN LoadFailed
                ELSE LET d == [planes |-> [i \in 1..n |-> PlaneAtBytes(b, first + (i - 1) * SizeofPlaneDesc)],
                               arrayLength |-> arrayLength, faces |-> faces, levels |-> levels,
                               alignment |-> alignment, size |-> size]
                     IN  IF ~DescValid(d) THEN LoadFailed
                         ELSE ReadPixels(b, first + n * SizeofPlaneDesc, d, allocOk, FALSE)

\* ------------------------------------------------------------------------
\* DDS codec
\* ------------------------------------------------------------------------
\* sizeof(DDSFileHeader)
SizeofDDSFileHeader == 128

\* sizeof(DDSHeaderDX10)
SizeofDDSHeaderDX10 == 20

\* 'D' 'D' 'S' ' '
DDS_MAGIC == 68 + 68 * 256 + 83 * 65536 + 32 * 16777216

\* MAKE_FOURCC('D', 'X', '1', '0')
FOURCC_DX10 == 68 + 88 * 256 + 49 * 65536 + 48 * 16777216

\* The DDPixelFormat stored at byte offset o of b.
DDPixelFormatAt(b, o) ==
   [size |-> U32(b, o), flags |-> U32(b, o + 4), fourcc |-> U32(b, o + 8), bits |-> U32(b, o + 12),
    rMask |-> U32(b, o + 16), gMask |-> U32(b, o + 20), bMask |-> U32(b, o + 24), aMask |-> U32(b, o + 28)]

\* The loop of getPixelFormatFromDDPF over the rows of table: the format of the
\* first row that matches, UNKNOWN when none does.
getPixelFormatFromDDPFIn(ddpf, table) ==
   LET flags == IF Bit(ddpf.flags, DDS_DDPF_FOURCC) THEN DDS_DDPF_FOURCC ELSE ddpf.flags
       any(masks) == \E m \in masks : Bit(flags, m)
       fourcc == any({DDS_DDPF_FOURCC})
       bits == any({DDS_DDPF_ALPHA, DDS_DDPF_PALETTEINDEXED8, DDS_DDPF_RGB, DDS_DDPF_ZBUFFER,
                    DDS_DDPF_STENCILBUFFER, DDS_DDPF_BUMPLUMINANCE, DDS_DDPF_BUMPDUDV})
       r == any({DDS_DDPF_RGB, DDS_DDPF_STENCILBUFFER, DDS_DDPF_LUMINANCE, DDS_DDPF_BUMPLUMINANCE, DDS_DDPF_BUMPDUDV})
       g == any({DDS_DDPF_RGB, DDS_DDPF_ZBUFFER, DDS_DDPF_STENCILBUFFER, DDS_DDPF_BUMPLUMINANCE, DDS_DDPF_BUMPDUDV})
       bl == any({DDS_DDPF_RGB, DDS_DDPF_STENCILBUFFER, DDS_DDPF_BUMPLUMINANCE, DDS_DDPF_BUMPDUDV})
       a == any({DDS_DDPF_ALPHAPIXELS, DDS_DDPF_ALPHA, DDS_DDPF_BUMPDUDV})
       found == {i \in 1..Len(table) :
                   /\ ddpf.size = DDS_DDPF_SIZE
                   /\ flags = table[i].ddpf.flags
                   /\ fourcc => ddpf.fourcc = table[i].ddpf.fourcc
                   /\ bits => ddpf.bits = table[i].ddpf.bits
                   /\ r => ddpf.rMask = table[i].ddpf.rMask
                   /\ g => ddpf.gMask = table[i].ddpf.gMask
                   /\ bl => ddpf.bMask = table[i].ddpf.bMask
                   /\ a => ddpf.aMask = table[i].ddpf.aMask}
   IN  IF found = {} THEN UNKNOWN
       ELSE table[CHOOSE i \in found : \A j \in found : i <= j].format

\* getPixelFormatFromDDPF(ddpf)
getPixelFormatFromDDPF(ddpf) == getPixelFormatFromDDPFIn(ddpf, s_ddpfDescTable)

\* ImageDesc::loadFromDDS once the pixel format is detected: the BGRA to RGBA
\* rewrite of the format, the descriptor and the pixels.
loadFromDDSPixels(b, allocOk, first, detected, width, height, depth, layers, mipLevels) ==
   LET bgr2rgb == /\ detected.layout = LAYOUT_8_8_8_8 /\ detected.swizzle0 = SWIZZLE_Z
                  /\ detected.swizzle1 = SWIZZLE_Y /\ detected.swizzle2 = SWIZZLE_X
   IN  IF ~FormatValid(detected) THEN LoadFailed
       ELSE IF layers = 0 THEN LoadFailed
       ELSE ReadPixels(b, first,
                       ImageDescReset(DefaultDesc,
                                      PlaneDescMake(IF bgr2rgb
                                                    THEN [detected EXCEPT !.swizzle0 = SWIZZLE_X, !.swizzle1 = SWIZZLE_Y,
                                                                          !.swizzle2 = SWIZZLE_Z]
                                                    ELSE detected,
                                                    [w |-> width, h |-> height, d |-> depth], 0, 0, 0, 4),
                                      1, layers, mipLevels, FACE_MAJOR, 4),
                       allocOk, bgr2rgb)

\* DDS_CAPS2_CUBEMAP_ALLFACES == (caps2 & DDS_CAPS2_CUBEMAP_ALLFACES)
AllFaces(caps2) == (caps2 \div 1024) % 64 = DDS_CAPS2_CUBEMAP_ALLFACES \div 1024

\* A variant of the face count that looks at the face bits only.
layersOfFaces(flags, caps, caps2) ==
   IF AllFaces(caps2) THEN 6
   ELSE IF ~Bit(caps2, DDS_CAPS2_CUBEMAP) \/ Bit(caps2, DDS_CAPS2_VOLUME) THEN 1
   ELSE 0

\* The face count of loadFromDDS ("check image dimension"): layers, 0 where
\* the code logs "Fail to detect image face count!" and returns.
layersOf(flags, caps, caps2) ==
   IF Bit(flags, DDS_DDSD_DEPTH) /\ Bit(caps, DDS_CAPS_COMPLEX) /\ Bit(caps2, DDS_CAPS2_VOLUME) THEN 1
   ELSE IF Bit(caps, DDS_CAPS_COMPLEX) /\ Bit(caps2, DDS_CAPS2_CUBEMAP) /\ AllFaces(caps2) THEN 6
   ELSE IF ~Bit(caps2, DDS_CAPS2_CUBEMAP) /\ ~Bit(caps2, DDS_CAPS2_VOLUME) THEN 1
   ELSE 0

\* ImageDesc::loadFromDDS once the DDSFileHeader is read: the checks of the
\* header, the DX10 header, and the layer, depth and mip counts.
loadFromDDSHeader(b, allocOk, flags, height, width, hdepth, mipCount, ddpf, caps, caps2) ==
   LET dx10 == ddpf.fourcc = FOURCC_DX10
       hasMipmap == Bit(flags, DDS_DDSD_MIPMAPCOUNT) /\ Bit(caps, DDS_CAPS_MIPMAP) /\ Bit(caps, DDS_CAPS_COMPLEX)
   IN  IF ~(Bit(flags, DDS_DDSD_WIDTH) /\ Bit(flags, DDS_DDSD_HEIGHT)) THEN LoadFailed
       ELSE IF Bit(ddpf.flags, DDS_DDPF_PALETTEINDEXED8) THEN LoadFailed
       ELSE IF dx10 /\ Len(b) < SizeofDDSFileHeader + SizeofDDSHeaderDX10 THEN LoadFailed
       ELSE loadFromDDSPixels(
               b, allocOk,
               IF dx10 THEN SizeofDDSFileHeader + SizeofDDSHeaderDX10 ELSE SizeofDDSFileHeader,
               IF dx10 THEN fromDXGI(U32(b, SizeofDDSFileHeader)) ELSE getPixelFormatFromDDPF(ddpf),
               width, height,
               IF Bit(flags, DDS_DDSD_DEPTH) THEN hdepth ELSE 1,
               layersOf(flags, caps, caps2),
               IF hasMipmap /\ mipCount # 0 THEN mipCount ELSE 1)

\* ImageDesc::loadFromDDS on a stream holding the bytes b, read from its start.
loadFromDDS(b, allocOk) ==
   IF Len(b) < SizeofDDSFileHeader THEN LoadFailed
   ELSE loadFromDDSHeader(b, allocOk, U32(b, 8), U32(b, 12), U32(b, 16), U32(b, 24), U32(b, 28),
                          DDPixelFormatAt(b, 76), U32(b, 108), U32(b, 112))

\* ImageDesc::load(stream, name) on a stream holding the bytes b: the RIL tag
\* is probed first; when that read is short the stream stays failed, seekg
\* does not move it and the DDS probe fails as well.  The stb_image bridge is
\* compiled out (STBI_INCLUDE_STB_IMAGE_H is not defined by the library).
ImageDescLoad(b, allocOk) ==
   IF Len(b) < SizeofRILFileTag THEN LoadFailed
   ELSE IF RILFileTagValid(b) THEN loadFromRIL(b, allocOk)
   ELSE IF U32(b, 0) = DDS_MAGIC THEN loadFromDDS(b, allocOk)
   ELSE LoadFailed

\* The reads of ImageDesc::load(stream, name) on a stream holding the bytes b
\* and positioned at begin, in the order they happen, as [probe, at]: at is
\* what tellg() returns when the read starts, -1 on a stream whose failbit is
\* set.  A read of the RIL tag that comes short sets the failbit, and seekg
\* leaves a failed stream alone.  bridge tells whether the build includes the
\* stb_image bridge.
LoadProbes(b, begin, bridge) ==
   IF Len(b) - begin < SizeofRILFileTag
   THEN <<[probe |-> "RIL tag", at |-> begin], [probe |-> "DDS magic", at |-> -1]>>
           \o (IF bridge THEN <<[probe |-> "raster", at |-> -1]>> ELSE <<>>)
   ELSE IF RILFileTagValid(SubSeq(b, begin + 1, Len(b)))
   THEN <<[probe |-> "RIL tag", at |-> begin], [probe |-> "loadFromRIL", at |-> begin]>>
   ELSE IF U32(b, begin) = DDS_MAGIC
   THEN <<[probe |-> "RIL tag", at |-> begin], [probe |-> "DDS magic", at |-> begin],
          [probe |-> "loadFromDDS", at |-> begin]>>
   ELSE <<[probe |-> "RIL tag", at |-> begin], [probe |-> "DDS magic", at |-> begin]>>
           \o (IF bridge THEN <<[probe |-> "raster", at |-> begin]>> ELSE <<>>)

\* ImageDesc::load(data, size, name): a null pointer or a zero size returns
\* at once, anything else is wrapped in a stream.
ImageDescLoadMemory(b, isNull, size_, allocOk) ==
   IF isNull \/ size_ = 0 THEN LoadFailed
   ELSE ImageDescLoad(SubSeq(b, 1, size_), allocOk)

\* ------------------------------------------------------------------------
\* Inputs of the model
\* ------------------------------------------------------------------------
\* A format whose layout is out of range (fails PixelFormat::valid()).
BadLayoutFormat == [UNKNOWN EXCEPT !.layout = 60]

ValidFormats == {R_8_UNORM, RG_8_8_UNORM, RGBA_8_8_8_8_UNORM, BC1_UNORM, ASTC_5x4_UNORM}

AllFormats == ValidFormats \cup {UNKNOWN, BadLayoutFormat}

\* Alignment arguments: 0 (use the default), every small value, and 8, 16.
AlignArgs == (0..MaxAlign) \cup {8, DEFAULT_PLANE_ALIGNMENT}

NoArgs == [op |-> "none"]

\* ------------------------------------------------------------------------
\* Specification of PlaneDesc::make
\* ------------------------------------------------------------------------
InitPlane ==
   /\ pc = "plane" /\ args = NoArgs /\ plane = EmptyPlane /\ desc = DefaultDesc
   /\ assertFailed = FALSE /\ srcData = <<>> /\ dstData = <<>> /\ stream = <<>>
   /\ pixels = <<>> /\ outcome = "none"

\* A call of PlaneDesc::make with arbitrary arguments.
CallPlaneMake ==
   /\ pc = "plane"
   /\ \E f \in AllFormats, w \in 0..MaxExtent, h \in 0..MaxExtent, d \in 0..MaxDepth,
         st \in {0, 3}, pi \in {0, 7, 16}, sl \in {0, 10, 50}, al \in AlignArgs :
         /\ args' = [op |-> "make", format |-> f, extent |-> [w |-> w, h |-> h, d |-> d],
                     step |-> st, pitch |-> pi, slice |-> sl, alignment |-> al]
         /\ plane' = PlaneDescMake(f, [w |-> w, h |-> h, d |-> d], st, pi, sl, al)
         /\ assertFailed' = (FormatValid(f) /\
                               ~PlaneMakeAsserts(PlaneDescMake(f, [w |-> w, h |-> h, d |-> d], st, pi, sl, al)))
   /\ pc' = "made"
   /\ UNCHANGED <<desc, srcData, dstData, stream, pixels, outcome>>

\* PlaneDesc::make(ASTC_6x6_UNORM, {256, 256, 1}) with the default spacing
\* arguments, or with an explicit alignment.
CallPlaneMakeASTC ==
   /\ pc = "plane"
   /\ \E al \in {4, 0, 3, DEFAULT_PLANE_ALIGNMENT} :
         /\ args' = [op |-> "make", format |-> ASTC_6x6_UNORM, extent |-> [w |-> 256, h |-> 256, d |-> 1],
                     step |-> 0, pitch |-> 0, slice |-> 0, alignment |-> al]
         /\ plane' = PlaneDescMake(ASTC_6x6_UNORM, [w |-> 256, h |-> 256, d |-> 1], 0, 0, 0, al)
         /\ assertFailed' = ~PlaneMakeAsserts(PlaneDescMake(ASTC_6x6_UNORM, [w |-> 256, h |-> 256, d |-> 1], 0, 0, 0, al))
   /\ pc' = "made"
   /\ UNCHANGED <<desc, srcData, dstData, stream, pixels, outcome>>

NextPlane == CallPlaneMake \/ CallPlaneMakeASTC

SpecPlane == InitPlane /\ [][NextPlane]_vars

\* ------------------------------------------------------------------------
\* Specification of ImageDesc::reset
\* ------------------------------------------------------------------------
MaxCount == 2

MaxLevels == 3

MaxImgExtent == 4

ImageAlignArgs == {0, 3, 4, 6, 8, DEFAULT_PLANE_ALIGNMENT}

\* The descriptor reset is called on: a default constructed one, or one that
\* ImageDesc::make built before.
PriorDescs ==
   {DefaultDesc,
    ImageDescReset(DefaultDesc, PlaneDescMake(RGBA_8_8_8_8_UNORM, [w |-> 2, h |-> 2, d |-> 2], 0, 0, 0, 4),
                   4, 1, 0, FACE_MAJOR, DEFAULT_PLANE_ALIGNMENT)}

InitImage ==
   /\ pc = "image" /\ args = NoArgs /\ plane = EmptyPlane /\ desc \in PriorDescs
   /\ assertFailed = FALSE /\ srcData = <<>> /\ dstData = <<>> /\ stream = <<>>
   /\ pixels = <<>> /\ outcome = "none"

\* PlaneDesc::make builds the base map that is handed to reset.
MakeBase ==
   /\ pc = "image"
   /\ \E f \in {R_8_UNORM, BC1_UNORM, UNKNOWN, BadLayoutFormat},
         w \in 1..MaxImgExtent, h \in {1, 3}, d \in 1..MaxDepth, al \in {2, 3, 4} :
         /\ args' = [op |-> "make", format |-> f, extent |-> [w |-> w, h |-> h, d |-> d],
                     step |-> 0, pitch |-> 0, slice |-> 0, alignment |-> al]
         /\ plane' = PlaneDescMake(f, [w |-> w, h |-> h, d |-> d], 0, 0, 0, al)
   /\ pc' = "base"
   /\ UNCHANGED <<desc, assertFailed, srcData, dstData, stream, pixels, outcome>>

\* PlaneDesc::make(DXT1_UNORM, {256, 256, 1}): the base map of a cube map.
MakeCubeBase ==
   /\ pc = "image"
   /\ args' = [op |-> "make", format |-> BC1_UNORM, extent |-> [w |-> 256, h |-> 256, d |-> 1],
               step |-> 0, pitch |-> 0, slice |-> 0, alignment |-> 4]
   /\ plane' = PlaneDescMake(BC1_UNORM, [w |-> 256, h |-> 256, d |-> 1], 0, 0, 0, 4)
   /\ pc' = "base"
   /\ UNCHANGED <<desc, assertFailed, srcData, dstData, stream, pixels, outcome>>

\* The caller overwrites the public field PlaneDesc::pitch of the base map.
OverwritePitch ==
   /\ pc = "base"
   /\ args.op = "make"
   /\ plane.extent = [w |-> MaxImgExtent, h |-> 3, d |-> 1]
   /\ plane' = [plane EXCEPT !.pitch = 0]
   /\ args' = [op |-> "pitch"]
   /\ UNCHANGED <<pc, desc, assertFailed, srcData, dstData, stream, pixels, outcome>>

DoReset(baseMap, a, f, l, order, al) ==
   /\ args' = [op |-> "reset", arrayLength |-> a, faces |-> f,
               levels |-> l, order |-> order, alignment |-> al, wasEmpty |-> DescEmpty(desc)]
   /\ \E result \in {ImageDescReset(desc, baseMap, a, f, l, order, al)} :
         /\ desc' = result
         /\ assertFailed' = ResetAssertFails(baseMap, al, result)
   /\ UNCHANGED <<plane, srcData, dstData, stream, pixels, outcome>>

\* ImageDesc::reset (or ImageDesc::make) on a fresh descriptor.
Reset ==
   /\ pc = "base"
   /\ DescEmpty(desc)
   /\ \E a \in 0..MaxCount, f \in 0..MaxCount, l \in 0..MaxLevels,
         order \in {FACE_MAJOR, MIP_MAJOR}, al \in ImageAlignArgs :
         DoReset(plane, a, f, l, order, al)
   /\ pc' = "reset"

\* ImageDesc::reset on a descriptor that already holds an image.
ResetAgain ==
   /\ pc = "base"
   /\ ~DescEmpty(desc)
   /\ \E a \in {1, MaxCount}, order \in {FACE_MAJOR, MIP_MAJOR}, al \in {0, 3, 4} :
         DoReset(plane, a, 2, 2, order, al)
   /\ pc' = "reset"

\* ImageDesc::reset of the cube-map base with six faces, or six array elements,
\* and the full mip chain.
ResetCube ==
   /\ pc = "base"
   /\ DescEmpty(desc)
   /\ plane.extent.w = 256
   /\ \E n \in {<<1, 6>>, <<6, 1>>}, order \in {FACE_MAJOR, MIP_MAJOR}, al \in {4, DEFAULT_PLANE_ALIGNMENT} :
         DoReset(plane, n[1], n[2], 0, order, al)
   /\ pc' = "reset"

NextImage == MakeBase \/ MakeCubeBase \/ OverwritePitch \/ Reset \/ ResetAgain \/ ResetCube

SpecImage == InitImage /\ [][NextImage]_vars

\* ------------------------------------------------------------------------
\* PlaneDesc::copyContent
\* ------------------------------------------------------------------------
\* int / int of C++: the quotient is truncated towards zero.
\* The largest int.
INT_MAX == 2147483647

\* int + int and int - int as the machine computes them: the sum modulo 2^32,
\* taken from -2^31 to 2^31 - 1.
AddInt(a, b) ==
   IF b > 0 /\ a > INT_MAX - b THEN (a - INT_MAX - 1) + (b - INT_MAX - 1)
   ELSE IF b < 0 /\ a < (-INT_MAX - 1) - b THEN (a + INT_MAX + 1) + (b + INT_MAX + 1)
   ELSE a + b

SubInt(a, b) == IF b = -INT_MAX - 1 THEN AddInt(AddInt(a, INT_MAX), 1) ELSE AddInt(a, -b)

\* (n + block - 1) / block in size_t, where the sum does not wrap.
BlocksIn(n, block) == (n \div block) + (((n % block) + block - 1) \div block)

CDiv(a, b) == IF a >= 0 THEN a \div b ELSE -((-a) \div b)

\* int % int of C++: the remainder has the sign of the dividend.
CRem(a, b) == IF a >= 0 THEN a % b ELSE -((-a) % b)

\* A variant of clamp that bounds the value from above only.
clampUpper(value, min_, max_) == IF value > max_ THEN max_ ELSE value

\* rii_details::clamp(value, min_, max_)
clamp(value, min_, max_) ==
   LET v == IF value < min_ THEN min_ ELSE value
   IN  IF v > max_ THEN max_ ELSE v

\* PlaneDesc::pixel(x, y, z): the byte offset it returns.
pixel(p, x, y, z) ==
   LET ld == layoutDesc(p.format)
   IN  z * p.slice + (y \div ld.blockHeight) * p.pitch + (x \div ld.blockWidth) * p.step + p.offset

\* The three assertions of PlaneDesc::pixel(x, y, z).
pixelAsserts(p, x, y, z) ==
   LET ld == layoutDesc(p.format)
   IN  /\ x < p.extent.w /\ y < p.extent.h /\ z < p.extent.d
       /\ x % ld.blockWidth = 0 /\ y % ld.blockHeight = 0
       /\ pixel(p, x, y, z) - p.offset < p.size

\* The clamped areas PlaneDesc::copyContent computes, in pixel blocks; ok is
\* FALSE when the call returns before the row loop.
CopyArea(dstDesc, dstNull, dstX_, dstY_, dstZ, srcDesc, srcNull, srcX_, srcY_, srcZ, srcW_, srcH_, srcD) ==
   LET dstLayout == layoutDesc(dstDesc.format)
       srcLayout == layoutDesc(srcDesc.format)
       none == [ok |-> FALSE, sx1 |-> 0, sy1 |-> 0, sz1 |-> 0, sx2 |-> 0, sy2 |-> 0, sz2 |-> 0,
                dx1 |-> 0, dy1 |-> 0, dz1 |-> 0]
   IN  IF srcLayout.blockBytes # dstLayout.blockBytes THEN none
       ELSE IF CRem(dstX_, dstLayout.blockWidth) # 0 \/ CRem(dstY_, dstLayout.blockHeight) # 0 THEN none
       ELSE IF CRem(srcX_, srcLayout.blockWidth) # 0 \/ CRem(srcY_, srcLayout.blockHeight) # 0 THEN none
       ELSE
       LET dstX == CDiv(dstX_, dstLayout.blockWidth)
           dstY == CDiv(dstY_, dstLayout.blockHeight)
           srcX == CDiv(srcX_, srcLayout.blockWidth)
           srcY == CDiv(srcY_, srcLayout.blockHeight)
           srcW == BlocksIn(srcW_, srcLayout.blockWidth)
           srcH == BlocksIn(srcH_, srcLayout.blockHeight)
           maxSW == (srcDesc.extent.w + srcLayout.blockWidth - 1) \div srcLayout.blockWidth
           maxSH == (srcDesc.extent.h + srcLayout.blockHeight - 1) \div srcLayout.blockHeight
           csx1 == clamp(srcX, 0, maxSW)
           csy1 == clamp(srcY, 0, maxSH)
           csz1 == clamp(srcZ, 0, srcDesc.extent.d)
           csx2 == clamp(AddInt(srcX, srcW), 0, maxSW)
           csy2 == clamp(AddInt(srcY, srcH), 0, maxSH)
           csz2 == clamp(AddInt(srcZ, srcD), 0, srcDesc.extent.d)
       IN  IF csx1 >= csx2 \/ csy1 >= csy2 \/ csz1 >= csz2 THEN none
           ELSE
           LET maxDW == (dstDesc.extent.w + dstLayout.blockWidth - 1) \div dstLayout.blockWidth
               maxDH == (dstDesc.extent.h + dstLayout.blockHeight - 1) \div dstLayout.blockHeight
               ux1 == AddInt(dstX, SubInt(csx1, srcX))
               uy1 == AddInt(dstY, SubInt(csy1, srcY))
               uz1 == AddInt(dstZ, SubInt(csz1, srcZ))
               dx1 == clamp(ux1, 0, maxDW)
               dy1 == clamp(uy1, 0, maxDH)
               dz1 == clamp(uz1, 0, dstDesc.extent.d)
               dx2 == clamp(AddInt(ux1, csx2 - csx1), 0, maxDW)
               dy2 == clamp(AddInt(uy1, csy2 - csy1), 0, maxDH)
               dz2 == clamp(AddInt(uz1, csz2 - csz1), 0, dstDesc.extent.d)
           IN  IF dx1 >= dx2 \/ dy1 >= dy2 \/ dz1 >= dz2 THEN none
               ELSE IF dstNull \/ srcNull THEN none
               ELSE [ok |-> TRUE,
                     sx1 |-> AddInt(srcX, SubInt(dx1, dstX)), sy1 |-> AddInt(srcY, SubInt(dy1, dstY)),
                     sz1 |-> AddInt(srcZ, SubInt(dz1, dstZ)),
                     sx2 |-> AddInt(srcX, SubInt(dx1, dstX)) + (dx2 - dx1),
                     sy2 |-> AddInt(srcY, SubInt(dy1, dstY)) + (dy2 - dy1),
                     sz2 |-> AddInt(srcZ, SubInt(dz1, dstZ)) + (dz2 - dz1),
                     dx1 |-> dx1, dy1 |-> dy1, dz1 |-> dz1]

\* The row loop of PlaneDesc::copyContent: rows are numbered r = z * ny + y in
\* the order the loop runs them, each one a memcpy of rowLength bytes; a byte
\* written by several rows keeps what the last of them wrote.  Buffers are
\* sequences, byte offset j of the source is element j + 1.
CopyRows(dstDesc, dstBytes, srcDesc, srcBytes, area) ==
   LET rowLength == (area.sx2 - area.sx1) * layoutDesc(srcDesc.format).blockBytes
       ny == area.sy2 - area.sy1
       nz == area.sz2 - area.sz1
       rows == 0..(nz * ny - 1)
       srcOffset(r) == pixel(srcDesc, area.sx1, (r % ny) + area.sy1, (r \div ny) + area.sz1) - srcDesc.offset
       dstOffset(r) == pixel(dstDesc, area.dx1, (r % ny) + area.dy1, (r \div ny) + area.dz1) - dstDesc.offset
       writers(j) == {r \in rows : dstOffset(r) <= j /\ j < dstOffset(r) + rowLength}
       last(j) == CHOOSE r \in writers(j) : \A q \in writers(j) : q <= r
       overrun == \E r \in rows : \/ srcOffset(r) + rowLength > Len(srcBytes)
                                  \/ dstOffset(r) + rowLength > Len(dstBytes)
       asserts == /\ area.sx1 < area.sx2 /\ area.sy1 < area.sy2 /\ area.sz1 < area.sz2
                  /\ \A r \in rows :
                        /\ pixelAsserts(srcDesc, area.sx1, (r % ny) + area.sy1, (r \div ny) + area.sz1)
                        /\ pixelAsserts(dstDesc, area.dx1, (r % ny) + area.dy1, (r \div ny) + area.dz1)
                        /\ srcOffset(r) <= srcDesc.size /\ srcOffset(r) + rowLength <= srcDesc.size
                        /\ dstOffset(r) <= dstDesc.size /\ dstOffset(r) + rowLength <= dstDesc.size
   IN  [data |-> IF overrun THEN dstBytes
                 ELSE [j1 \in 1..Len(dstBytes) |->
                         IF writers(j1 - 1) = {} THEN dstBytes[j1]
                         ELSE srcBytes[srcOffset(last(j1 - 1)) + (j1 - 1 - dstOffset(last(j1 - 1))) + 1]],
        overrun |-> overrun,
        assertFailed |-> ~asserts]

\* ------------------------------------------------------------------------
\* Copies between two planes
\* ------------------------------------------------------------------------
\* Largest copy extent a caller asks for.
MaxCopySize == 8

\* Planes with 1x1 pixel blocks: tightly packed, with a step wider than the
\* pixel, and two 2-byte formats.
PixelPlanes ==
   {PlaneDescMake(R_8_UNORM, [w |-> 3, h |-> 2, d |-> 2], 0, 0, 0, 1),
    PlaneDescMake(R_8_UNORM, [w |-> 2, h |-> 2, d |-> 1], 2, 0, 0, 4),
    PlaneDescMake(RG_8_8_UNORM, [w |-> 2, h |-> 2, d |-> 1], 0, 0, 0, 4),
    PlaneDescMake(R_16_UINT, [w |-> 3, h |-> 2, d |-> 1], 0, 0, 0, 2)}

\* BC1 planes of 2x2, 1x1 and 2x1 blocks.
BlockPlanes ==
   {PlaneDescMake(BC1_UNORM, [w |-> 8, h |-> 8, d |-> 1], 0, 0, 0, 4),
    PlaneDescMake(BC1_UNORM, [w |-> 4, h |-> 4, d |-> 1], 0, 0, 0, 4),
    PlaneDescMake(BC1_UNORM, [w |-> 8, h |-> 4, d |-> 2], 0, 0, 0, 4)}

CopyOffsetsX == {-4, -1, 0, 1, 4}

CopyOffsetsY == {-4, -1, 0, 4}

\* The bytes of a source buffer: byte offset j holds the tag j + 1.
SrcBytes(p) == [j1 \in 1..p.size |-> j1]

\* The bytes of a destination buffer before the copy.
DstBytes(p) == [j1 \in 1..p.size |-> 0]

InitCopy ==
   /\ pc = "copy" /\ args = NoArgs /\ plane = EmptyPlane /\ desc = DefaultDesc
   /\ assertFailed = FALSE /\ srcData = <<>> /\ dstData = <<>> /\ stream = <<>>
   /\ pixels = <<>> /\ outcome = "none"

\* One call of PlaneDesc::copyContent on freshly filled buffers.
DoCopy(op, dst, src, dx, dy, dz, sx, sy, sz, w, h, d, nul) ==
   \E area \in {CopyArea(dst, nul = "dst", dx, dy, dz, src, nul = "src", sx, sy, sz, w, h, d)} :
   \E r \in {CopyRows(dst, DstBytes(dst), src, SrcBytes(src), area)} :
      /\ args' = [op |-> op, dst |-> dst, src |-> src, dstX |-> dx, dstY |-> dy, dstZ |-> dz,
                  srcX |-> sx, srcY |-> sy, srcZ |-> sz, srcW |-> w, srcH |-> h, srcD |-> d, null |-> nul]
      /\ srcData' = IF nul = "src" THEN <<>> ELSE SrcBytes(src)
      /\ dstData' = IF nul = "dst" THEN <<>> ELSE IF area.ok THEN r.data ELSE DstBytes(dst)
      /\ assertFailed' = (area.ok /\ r.assertFailed)
      /\ outcome' = IF ~area.ok THEN "returned" ELSE IF r.overrun THEN "overrun" ELSE "copied"
      /\ pc' = "copied"
      /\ UNCHANGED <<plane, desc, stream, pixels>>

\* copyContent between planes of 1x1 pixel blocks.
CopyPixels ==
   /\ pc = "copy"
   /\ \E dst \in PixelPlanes, src \in PixelPlanes, dx \in CopyOffsetsX, dy \in {-1, 0, 1}, dz \in {0, 1},
         sx \in {-1, 0, 1}, sy \in {0, 1}, sz \in {0, 1}, w \in {0, 1, 2, MaxCopySize},
         h \in {1, MaxCopySize}, d \in {1, 2} :
         DoCopy("copy", dst, src, dx, dy, dz, sx, sy, sz, w, h, d, "none")

\* copyContent between planes of a block-compressed format.
CopyBlocks ==
   /\ pc = "copy"
   /\ \E dst \in BlockPlanes, src \in BlockPlanes, dx \in CopyOffsetsX, dy \in CopyOffsetsY, dz \in {0, 1},
         sx \in CopyOffsetsX, sy \in CopyOffsetsY, sz \in {0, 1}, w \in {1, 4, MaxCopySize},
         h \in {4, MaxCopySize}, d \in {1, 2} :
         DoCopy("copy", dst, src, dx, dy, dz, sx, sy, sz, w, h, d, "none")

\* copyContent with a null source or destination buffer.
CopyNull ==
   /\ pc = "copy"
   /\ \E dst \in PixelPlanes \cup BlockPlanes, src \in PixelPlanes \cup BlockPlanes, nul \in {"src", "dst"},
         dx \in {-4, 0}, w \in {0, MaxCopySize} :
         DoCopy("copy", dst, src, dx, 0, 0, 0, 0, 0, w, MaxCopySize, 1, nul)

\* Offsets far from every plane, block-aligned and not.
FarOffsets == {-INT_MAX, -INT_MAX + 3, -12, -9, 16, 17, INT_MAX - 3, INT_MAX}

\* Extents of the rectangles placed there.
FarExtents == {1, MaxCopySize, INT_MAX}

\* <<x, y, z>> with the offset far on one axis and 0 on the others.
OnAxis(axis, far) == <<IF axis = 1 THEN far ELSE 0, IF axis = 2 THEN far ELSE 0, IF axis = 3 THEN far ELSE 0>>

\* copyContent with a source or destination offset far from the plane on one
\* axis, with and without buffers.
CopyOutside ==
   /\ pc = "copy"
   /\ \E dst \in PixelPlanes \cup BlockPlanes, src \in PixelPlanes \cup BlockPlanes, axis \in 1..3,
         side \in {"src", "dst"}, far \in FarOffsets, w \in FarExtents, h \in {4, INT_MAX},
         nul \in {"none", "src", "dst"} :
      \E do \in {IF side = "dst" THEN OnAxis(axis, far) ELSE <<0, 0, 0>>},
         so \in {IF side = "src" THEN OnAxis(axis, far) ELSE <<0, 0, 0>>} :
         DoCopy("copyOutside", dst, src, do[1], do[2], do[3], so[1], so[2], so[3], w, h, h, nul)

\* Planes whose public fields were assigned after make and that pass valid():
\* a step of 4 in a pitch of 4 bytes, and a pitch as large as the slice.
LoosePlanes ==
   {[PlaneDescMake(R_8_UNORM, [w |-> 4, h |-> 1, d |-> 1], 0, 0, 0, 4) EXCEPT !.step = 4],
    [PlaneDescMake(R_8_UNORM, [w |-> 1, h |-> 2, d |-> 1], 0, 0, 0, 4) EXCEPT !.pitch = 8]}

\* copyContent to and from such planes.
CopyLoose ==
   /\ pc = "copy"
   /\ \E dst \in LoosePlanes \cup PixelPlanes, src \in LoosePlanes \cup PixelPlanes,
         dx \in {0, 3}, dy \in {0, 1}, sx \in {0, 3}, sy \in {0, 1}, w \in {1, 4}, h \in {1, 2} :
         /\ dst \in LoosePlanes \/ src \in LoosePlanes
         /\ DoCopy("copyLoose", dst, src, dx, dy, 0, sx, sy, 0, w, h, 1, "none")

NextCopy == CopyPixels \/ CopyBlocks \/ CopyNull \/ CopyOutside \/ CopyLoose

SpecCopy == InitCopy /\ [][NextCopy]_vars

\* ------------------------------------------------------------------------
\* Saving and loading image files
\* ------------------------------------------------------------------------
\* Faces of the largest image that is saved.
MaxFileFaces == 2

\* The bytes of a pixel buffer of n bytes.
PixelBytes(n) == [i \in 1..n |-> (i * 37) % 251]

\* n zero bytes.
Zeros(n) == [i \in 1..n |-> 0]

\* The descriptors that are saved: valid ones with power-of-two and other
\* alignments, the empty one, and one that fails valid().
SaveDescs ==
   {ImageDescReset(DefaultDesc, PlaneDescMake(RGBA_8_8_8_8_UNORM, [w |-> 2, h |-> 1, d |-> 1], 0, 0, 0, 4),
                   1, 1, 1, FACE_MAJOR, 4),
    ImageDescReset(DefaultDesc, PlaneDescMake(R_8_UNORM, [w |-> 3, h |-> 1, d |-> 1], 0, 0, 0, 4),
                   1, MaxFileFaces, 1, MIP_MAJOR, DEFAULT_PLANE_ALIGNMENT),
    ImageDescReset(DefaultDesc, PlaneDescMake(BC1_UNORM, [w |-> 4, h |-> 4, d |-> 1], 0, 0, 0, 4),
                   1, 1, 0, FACE_MAJOR, 8),
    ImageDescReset(DefaultDesc, PlaneDescMake(RGBA_8_8_8_8_UNORM, [w |-> 1, h |-> 1, d |-> 1], 0, 0, 0, 4),
                   1, 1, 1, FACE_MAJOR, 12),
    ImageDescReset(DefaultDesc, PlaneDescMake(R_8_UNORM, [w |-> 2, h |-> 1, d |-> 1], 0, 0, 0, 3),
                   1, 1, 1, FACE_MAJOR, 0),
    ImageDescReset(DefaultDesc, PlaneDescMake(R_8_UNORM, [w |-> 2, h |-> 1, d |-> 1], 0, 0, 0, 2),
                   1, 1, 2, FACE_MAJOR, 0),
    DefaultDesc}

\* The memory image of a DDSFileHeader with the given fields, all others zero.
DDSFileHeader(flags, height, width, depth, mipCount, ddpf, caps, caps2) ==
   LE32(DDS_MAGIC) \o LE32(124) \o LE32(flags) \o LE32(height) \o LE32(width) \o LE32(0)
      \o LE32(depth) \o LE32(mipCount) \o Zeros(44)
      \o LE32(ddpf.size) \o LE32(ddpf.flags) \o LE32(ddpf.fourcc) \o LE32(ddpf.bits)
      \o LE32(ddpf.rMask) \o LE32(ddpf.gMask) \o LE32(ddpf.bMask) \o LE32(ddpf.aMask)
      \o LE32(caps) \o LE32(caps2) \o Zeros(12)

\* The memory image of a DDSHeaderDX10 for a 2D texture of the given format.
DDSHeaderDX10(format) == LE32(format) \o LE32(3) \o LE32(0) \o LE32(1) \o LE32(0)

\* DDS files as they come from disk: 32-bit RGBA and BGRA, DXT1, a DXT1 cube
\* map, a volume with a mip chain, a DX10 file, and headers the reader has to
\* refuse (unknown bit count, no height flag, palette, half a cube map).
DDSFiles ==
   LET wh == DDS_DDSD_WIDTH + DDS_DDSD_HEIGHT
       rgba == [size |-> DDS_DDPF_SIZE, flags |-> DDS_DDPF_RGB + DDS_DDPF_ALPHAPIXELS, fourcc |-> 0, bits |-> 32,
                rMask |-> 255, gMask |-> 65280, bMask |-> 16711680, aMask |-> -16777216]
       bgra == [rgba EXCEPT !.rMask = 16711680, !.bMask = 255]
       dxt1 == [size |-> DDS_DDPF_SIZE, flags |-> DDS_DDPF_FOURCC, fourcc |-> DDS_FOURCC_DXT1, bits |-> 0,
                rMask |-> 0, gMask |-> 0, bMask |-> 0, aMask |-> 0]
   IN  {DDSFileHeader(wh, 1, 2, 0, 0, rgba, 0, 0) \o PixelBytes(8),
        DDSFileHeader(wh, 1, 2, 0, 0, bgra, 0, 0) \o PixelBytes(8),
        DDSFileHeader(wh, 4, 4, 0, 0, dxt1, 0, 0) \o PixelBytes(8),
        DDSFileHeader(wh, 4, 4, 0, 0, dxt1, DDS_CAPS_COMPLEX, DDS_CAPS2_CUBEMAP_ALLFACES + DDS_CAPS2_CUBEMAP)
           \o PixelBytes(48),
        DDSFileHeader(wh + DDS_DDSD_DEPTH + DDS_DDSD_MIPMAPCOUNT, 1, 2, 2, 2, rgba,
                      DDS_CAPS_COMPLEX + DDS_CAPS_MIPMAP, DDS_CAPS2_VOLUME) \o PixelBytes(20),
        DDSFileHeader(wh, 1, 1, 0, 0, [dxt1 EXCEPT !.fourcc = FOURCC_DX10], 0, 0)
           \o DDSHeaderDX10(2) \o PixelBytes(16),
        DDSFileHeader(wh, 1, 1, 0, 0, [dxt1 EXCEPT !.fourcc = FOURCC_DX10], 0, 0)
           \o DDSHeaderDX10(66) \o PixelBytes(16),
        DDSFileHeader(wh, 1, 2, 0, 0, [bgra EXCEPT !.flags = DDS_DDPF_RGB, !.aMask = 0], 0, 0) \o PixelBytes(8),
        DDSFileHeader(wh + DDS_DDSD_MIPMAPCOUNT, 2, 2, 0, 2, bgra, DDS_CAPS_COMPLEX + DDS_CAPS_MIPMAP, 0)
           \o PixelBytes(20),
        DDSFileHeader(wh, 1, 1, 0, 0, [dxt1 EXCEPT !.fourcc = FOURCC_DX10], 0, 0)
           \o DDSHeaderDX10(87) \o PixelBytes(4),
        DDSFileHeader(wh, 1, 2, 0, 0, [rgba EXCEPT !.bits = 13], 0, 0) \o PixelBytes(8),
        DDSFileHeader(DDS_DDSD_WIDTH, 1, 2, 0, 0, rgba, 0, 0) \o PixelBytes(8),
        DDSFileHeader(wh, 1, 2, 0, 0, [rgba EXCEPT !.flags = DDS_DDPF_PALETTEINDEXED8], 0, 0) \o PixelBytes(8),
        DDSFileHeader(wh, 4, 4, 0, 0, dxt1, DDS_CAPS_COMPLEX, DDS_CAPS2_CUBEMAP) \o PixelBytes(48)}

\* One-pixel RGBA DDS files with every kind of caps: plain, cube map with all,
\* one or no face bits, volume, with and without DDSCAPS_COMPLEX and the
\* depth flag, followed by the pixels of six faces.
CapsFiles ==
   {DDSFileHeader(DDS_DDSD_WIDTH + DDS_DDSD_HEIGHT + dflag, 1, 1, 1, 0,
                  [size |-> DDS_DDPF_SIZE, flags |-> DDS_DDPF_RGB + DDS_DDPF_ALPHAPIXELS, fourcc |-> 0, bits |-> 32,
                   rMask |-> 255, gMask |-> 65280, bMask |-> 16711680, aMask |-> -16777216],
                  caps, caps2) \o PixelBytes(24) :
      dflag \in {0, DDS_DDSD_DEPTH}, caps \in {0, DDS_CAPS_COMPLEX},
      caps2 \in {0, DDS_CAPS2_CUBEMAP, DDS_CAPS2_CUBEMAP_ALLFACES, DDS_CAPS2_CUBEMAP + DDS_CAPS2_CUBEMAP_ALLFACES,
                 DDS_CAPS2_CUBEMAP + 1024, DDS_CAPS2_VOLUME,
                 DDS_CAPS2_VOLUME + DDS_CAPS2_CUBEMAP + DDS_CAPS2_CUBEMAP_ALLFACES}}

\* Files that are neither RIL nor DDS: a PNG signature, and "DDS" cut short.
OtherFiles == {<<137, 80, 78, 71, 13, 10, 26, 10, 0, 0, 0, 13>>, <<68, 68, 83, 32, 124>>, <<>>}

\* DDS files behind four other bytes.
ShiftedFiles == {Zeros(4) \o f : f \in {g \in DDSFiles : Len(g) = SizeofDDSFileHeader + 8}}

InitFile ==
   /\ pc = "file" /\ args = NoArgs /\ plane = EmptyPlane /\ desc \in SaveDescs
   /\ assertFailed = FALSE /\ srcData = <<>> /\ dstData = <<>> /\ stream = <<>>
   /\ pixels = PixelBytes(desc.size) /\ outcome = "none"

\* Image::save / saveToRIL of the descriptor and its pixels to the stream.
SaveRIL ==
   /\ pc = "file"
   /\ \E r \in {saveToRIL(desc, pixels)} :
         /\ stream' = r.bytes
         /\ outcome' = IF r.thrown THEN "thrown" ELSE "saved"
   /\ args' = [op |-> "save", saved |-> desc, blob |-> pixels, kind |-> "ril", intact |-> TRUE]
   /\ pc' = "saved"
   /\ UNCHANGED <<plane, desc, assertFailed, srcData, dstData, pixels>>

\* The stream is opened on a file some other program wrote.
OpenFile ==
   /\ pc = "file"
   /\ desc = DefaultDesc
   /\ \E f \in DDSFiles \cup CapsFiles \cup OtherFiles \cup ShiftedFiles :
         /\ stream' = f
         /\ args' = [op |-> "open", saved |-> DefaultDesc, blob |-> <<>>,
                     kind |-> IF f \in DDSFiles \cup CapsFiles THEN "dds" ELSE "other", intact |-> TRUE]
   /\ outcome' = "saved"
   /\ pc' = "saved"
   /\ UNCHANGED <<plane, desc, assertFailed, srcData, dstData, pixels>>

\* Where files get cut: inside and at the end of every structure.
CutPoints(b) == {0, 3, 4, 7, 8, 20, 43, 44, 45, 83, 84, 100, 127, 128, 130, 147, 148, Len(b) - 1}

\* The file is cut short before it is loaded.
Truncate ==
   /\ pc = "saved"
   /\ \E n \in CutPoints(stream) :
         /\ 0 <= n /\ n < Len(stream)
         /\ stream' = SubSeq(stream, 1, n)
   /\ args' = [args EXCEPT !.op = "truncate", !.intact = FALSE]
   /\ pc' = "damaged"
   /\ UNCHANGED <<plane, desc, assertFailed, srcData, dstData, pixels, outcome>>

\* The 32-bit fields that get overwritten, as <<byte offset, value>>: the tag,
\* the header fields and the first plane of a RIL file with small values and
\* the byte size with 2^30, the header fields of a DDS file.
Damage ==
   ({0, 4, 8, 12, 16, 20, 24, 28, 32, 36, 44, 48, 60, 64, 72, 76, 80, 84, 108, 112} \X {0, 1, 2, 3})
      \cup {<<36, 2 ^ 30>>}

\* One 32-bit field of the file is overwritten before it is loaded.
Overwrite ==
   /\ pc = "saved"
   /\ \E t \in Damage :
         /\ t[1] + 4 <= Len(stream)
         /\ U32(stream, t[1]) # t[2]
         /\ stream' = [i \in 1..Len(stream) |->
                         IF t[1] < i /\ i <= t[1] + 4 THEN LE32(t[2])[i - t[1]] ELSE stream[i]]
   /\ args' = [args EXCEPT !.op = "overwrite", !.intact = FALSE]
   /\ pc' = "damaged"
   /\ UNCHANGED <<plane, desc, assertFailed, srcData, dstData, pixels, outcome>>

\* The descriptors ImageDesc::load is called on.
LoadTargets == PriorDescs

\* The outcome r of a load call on the descriptor target: the descriptor is
\* move-assigned on success only.
DoLoad(op, target, r, allocOk, begin, probes) ==
   /\ allocOk \/ (r.asked /\ aallocMayReturnNull(r.a, r.s))
   /\ args' = [op |-> op, saved |-> args.saved, blob |-> args.blob, kind |-> args.kind,
               intact |-> args.intact, target |-> target, asked |-> r.asked, begin |-> begin, probes |-> probes]
   /\ desc' = IF r.outcome = "ok" THEN r.desc ELSE target
   /\ pixels' = r.pixels
   /\ outcome' = r.outcome
   /\ pc' = "loaded"
   /\ UNCHANGED <<plane, assertFailed, srcData, dstData, stream>>

\* ImageDesc::load(stream)
Load ==
   /\ pc \in {"saved", "damaged"}
   /\ \E target \in LoadTargets, allocOk \in BOOLEAN, bridge \in BOOLEAN :
         DoLoad("ImageDesc::load", target, ImageDescLoad(stream, allocOk), allocOk, 0,
                LoadProbes(stream, 0, bridge))

\* ImageDesc::load(stream) on a stream that is not at its start.
LoadAt ==
   /\ pc \in {"saved", "damaged"}
   /\ \E begin \in {1, 4}, allocOk \in BOOLEAN, bridge \in BOOLEAN :
         /\ begin <= Len(stream)
         /\ DoLoad("ImageDesc::load(offset)", DefaultDesc,
                   ImageDescLoad(SubSeq(stream, begin + 1, Len(stream)), allocOk), allocOk, begin,
                   LoadProbes(stream, begin, bridge))

\* ImageDesc::load(data, size) on the bytes of the file, on a null pointer and
\* with a zero size.
LoadMemory ==
   /\ pc \in {"saved", "damaged"}
   /\ \E target \in LoadTargets, allocOk \in BOOLEAN, isNull \in BOOLEAN, size_ \in {0, Len(stream)} :
         /\ isNull \/ size_ = 0
         /\ DoLoad("ImageDesc::load(data)", target, ImageDescLoadMemory(stream, isNull, size_, allocOk), allocOk,
                   0, <<>>)

\* Image::load(stream): a fresh Image loads into its own descriptor and is
\* returned when the pixel buffer is not null, an empty Image otherwise.
ImageLoad ==
   /\ pc \in {"saved", "damaged"}
   /\ \E allocOk \in BOOLEAN :
      \E r \in {ImageDescLoad(stream, allocOk)} :
         DoLoad("Image::load", DefaultDesc,
                IF r.pixels = <<>> /\ r.outcome = "ok" THEN [r EXCEPT !.outcome = "failed"] ELSE r, allocOk,
                0, LoadProbes(stream, 0, FALSE))

NextFile == SaveRIL \/ OpenFile \/ Truncate \/ Overwrite \/ Load \/ LoadAt \/ LoadMemory \/ ImageLoad

SpecFile == InitFile /\ [][NextFile]_vars

\* ------------------------------------------------------------------------
\* Properties of PlaneDesc::make
\* ------------------------------------------------------------------------
\* C3: every PlaneDesc returned by PlaneDesc::make with a valid format, for any
\* extent, step, pitch, slice and alignment argument, passes valid(), has
\* size = slice * extent.d, and has pitch and slice that are multiples of its
\* alignment.
C3_MakeValid ==
   (pc = "made" /\ FormatValid(args.format)) =>
      /\ PlaneValid(plane)
      /\ ~assertFailed
      /\ plane.size = plane.slice * plane.extent.d
      /\ plane.pitch % plane.alignment = 0
      /\ plane.slice % plane.alignment = 0

\* A make call with an odd alignment and a pitch argument that had to be rounded up.
C3_Witness ==
   /\ pc = "made" /\ FormatValid(args.format)
   /\ args.alignment = 3 /\ args.pitch = 7 /\ plane.pitch = 9 /\ plane.extent.d = 2

\* ------------------------------------------------------------------------
\* Properties of PlaneDesc::copyContent
\* ------------------------------------------------------------------------
\* Where the fields of PlaneDesc put pixel block (bx, by, z): step bytes from
\* one block to the next, pitch from one block row to the next, slice from one
\* depth slice to the next.
BlockOffset(p, bx, by, z) == z * p.slice + by * p.pitch + bx * p.step

\* The pixel blocks of plane p, as <<bx, by, z>>.
BlocksOf(p) ==
   LET ld == layoutDesc(p.format)
   IN  (0..((p.extent.w + ld.blockWidth - 1) \div ld.blockWidth - 1))
          \X (0..((p.extent.h + ld.blockHeight - 1) \div ld.blockHeight - 1))
          \X (0..(p.extent.d - 1))

\* The source block the copy call recorded in args pairs with destination
\* block c: the one at the same displacement from the source origin.
SourceOf(c) ==
   LET dl == layoutDesc(args.dst.format)
       sl == layoutDesc(args.src.format)
   IN  <<c[1] - CDiv(args.dstX, dl.blockWidth) + CDiv(args.srcX, sl.blockWidth),
         c[2] - CDiv(args.dstY, dl.blockHeight) + CDiv(args.srcY, sl.blockHeight),
         c[3] - args.dstZ + args.srcZ>>

\* Source block s lies in the requested region and in the source plane.
InRegion(s) ==
   LET sl == layoutDesc(args.src.format)
       x0 == CDiv(args.srcX, sl.blockWidth)
       y0 == CDiv(args.srcY, sl.blockHeight)
   IN  /\ s \in BlocksOf(args.src)
       /\ x0 <= s[1] /\ s[1] < x0 + (args.srcW + sl.blockWidth - 1) \div sl.blockWidth
       /\ y0 <= s[2] /\ s[2] < y0 + (args.srcH + sl.blockHeight - 1) \div sl.blockHeight
       /\ args.srcZ <= s[3] /\ s[3] < args.srcZ + args.srcD

\* What destination byte offset j has to hold after the copy recorded in
\* args: the matching byte of the paired source block when j lies in a block
\* whose source block is in the region, the byte it held before otherwise.
ExpectedByte(j) ==
   LET bb == layoutDesc(args.dst.format).blockBytes
       hit == {c \in BlocksOf(args.dst) :
                 /\ BlockOffset(args.dst, c[1], c[2], c[3]) <= j
                 /\ j < BlockOffset(args.dst, c[1], c[2], c[3]) + bb
                 /\ InRegion(SourceOf(c))}
   IN  IF hit = {} THEN DstBytes(args.dst)[j + 1]
       ELSE LET c == CHOOSE c \in hit : TRUE
                t == SourceOf(c)
            IN  SrcBytes(args.src)[BlockOffset(args.src, t[1], t[2], t[3])
                                   + (j - BlockOffset(args.dst, c[1], c[2], c[3])) + 1]

\* The call recorded in args copied between two buffers of planes whose
\* blocks are bw x bh pixels and have the same byte size.
CopyCalled(bw, bh) ==
   /\ pc = "copied" /\ args.op = "copy" /\ args.null = "none"
   /\ layoutDesc(args.dst.format).blockWidth = bw /\ layoutDesc(args.dst.format).blockHeight = bh
   /\ layoutDesc(args.src.format).blockWidth = bw /\ layoutDesc(args.src.format).blockHeight = bh
   /\ layoutDesc(args.dst.format).blockBytes = layoutDesc(args.src.format).blockBytes

\* C4: after copyContent between two valid planes of 1x1 pixel blocks and equal
\* blockBytes, whatever their step and pitch and whatever the offsets and
\* extents, every destination pixel whose source pixel lies in the requested
\* region and in the source plane holds that pixel's bytes and every other
\* destination byte is unchanged.
C4_CopyPixels ==
   CopyCalled(1, 1) =>
      /\ ~assertFailed
      /\ outcome # "overrun"
      /\ \A j \in 0..(args.dst.size - 1) : dstData[j + 1] = ExpectedByte(j)

\* C5: after copyContent between two planes of a block-compressed format with
\* block-aligned pixel offsets, every block of the clipped region, in every
\* block row and column, has been copied to its destination block and every
\* other destination byte is unchanged.
C5_CopyBlocks ==
   (/\ CopyCalled(4, 4)
    /\ args.dstX % 4 = 0 /\ args.dstY % 4 = 0 /\ args.srcX % 4 = 0 /\ args.srcY % 4 = 0) =>
      /\ ~assertFailed
      /\ outcome # "overrun"
      /\ \A j \in 0..(args.dst.size - 1) : dstData[j + 1] = ExpectedByte(j)

\* ------------------------------------------------------------------------
\* Properties of saving and loading
\* ------------------------------------------------------------------------
\* PlaneDesc::operator==
PlaneDescEq(p, q) ==
   /\ p.format = q.format /\ p.extent = q.extent /\ p.step = q.step /\ p.pitch = q.pitch
   /\ p.slice = q.slice /\ p.size = q.size /\ p.offset = q.offset

\* ImageDesc::operator==
ImageDescEq(d, e) ==
   /\ Len(d.planes) = Len(e.planes)
   /\ \A i \in 1..Len(d.planes) : PlaneDescEq(d.planes[i], e.planes[i])
   /\ d.arrayLength = e.arrayLength /\ d.faces = e.faces /\ d.levels = e.levels
   /\ d.size = e.size /\ d.alignment = e.alignment

\* A load call has returned, or has gone down, on the RIL file that SaveRIL
\* wrote from a valid non-empty descriptor and that nothing touched since.
LoadedSavedFile ==
   /\ pc = "loaded" /\ args.kind = "ril" /\ args.intact
   /\ args.op \in {"ImageDesc::load", "Image::load"}
   /\ ~DescEmpty(args.saved) /\ DescValid(args.saved)

\* C6: loading the RIL stream saved from a valid non-empty descriptor d, of any
\* alignment, and a buffer of d.size bytes yields a descriptor equal to d under
\* operator== and a buffer identical to the saved one.
C6_RoundTrip ==
   LoadedSavedFile =>
      /\ outcome = "ok"
      /\ ImageDescEq(desc, args.saved)
      /\ pixels = SubSeq(args.blob, 1, args.saved.size)

\* C7: whenever a load call does not succeed it returns a null pixel buffer and
\* leaves the descriptor it was called on as it was; Image::load returns an
\* empty Image.
C7_FailedLoad ==
   (pc = "loaded" /\ outcome # "ok") =>
      /\ outcome = "failed"
      /\ pixels = <<>>
      /\ desc = args.target
      /\ args.op = "Image::load" => DescEmpty(desc)

\* ------------------------------------------------------------------------
\* Properties of ImageDesc::reset
\* ------------------------------------------------------------------------
\* The planes of d as the set of their indices.
PlaneIdx(d) == 1..Len(d.planes)

\* reset went past its two validation returns and built planes.
ResetBuilt == pc = "reset" /\ ~DescEmpty(desc)

\* C1: in every descriptor reset builds, the byte ranges [offset, offset + size)
\* of two distinct planes are disjoint and every plane ends inside desc.size.
C1_PlanesDisjoint ==
   ResetBuilt =>
      /\ \A i, j \in PlaneIdx(desc) :
            i # j => \/ desc.planes[i].offset + desc.planes[i].size <= desc.planes[j].offset
                     \/ desc.planes[j].offset + desc.planes[j].size <= desc.planes[i].offset
      /\ \A i \in PlaneIdx(desc) : desc.planes[i].offset + desc.planes[i].size <= desc.size

\* A mip-major image of several array elements, faces and levels with 3D planes.
C1_Witness ==
   /\ ResetBuilt /\ args.order = MIP_MAJOR /\ Len(desc.planes) >= 8
   /\ desc.levels >= 2 /\ plane.extent.d = 2

\* C2: every non-empty descriptor reset builds passes ImageDesc::valid(): the
\* assertion at the end of reset holds, the plane count is arrayLength * faces *
\* levels and every plane, derived mip levels included, passes PlaneDesc::valid().
C2_ResetValid ==
   ResetBuilt =>
      /\ ~assertFailed
      /\ DescValid(desc)
      /\ Len(desc.planes) = desc.arrayLength * desc.faces * desc.levels
      /\ \A i \in PlaneIdx(desc) : PlaneValid(desc.planes[i])

\* C8: reset with an invalid base map, or with an image alignment that is not
\* a multiple of the base map's alignment, leaves the descriptor empty whatever
\* it held before; PlaneDesc::make with an invalid format returns the empty plane.
C8_FailureYieldsEmpty ==
   /\ (pc = "base" /\ args.op = "make" /\ ~FormatValid(args.format)) => plane = EmptyPlane
   /\ (pc = "reset" /\ (\/ ~PlaneValid(plane)
                        \/ (IF args.alignment = 0 THEN plane.alignment ELSE args.alignment)
                              % plane.alignment # 0)) =>
         /\ desc.planes = <<>>
         /\ desc.arrayLength = 0 /\ desc.faces = 0 /\ desc.levels = 0 /\ desc.size = 0

\* reset rejected a misaligned request on a descriptor that held an image.
C8_Witness ==
   /\ pc = "reset" /\ ~args.wasEmpty /\ PlaneValid(plane)
   /\ args.alignment = 3 /\ plane.alignment = 4 /\ DescEmpty(desc)

\* C9 as stated: with MIP_MAJOR every plane of level l precedes every plane of
\* level l + 1, for any two array indices and faces.
C9_Original ==
   (ResetBuilt /\ args.order = MIP_MAJOR) =>
      \A a1, a2 \in 0..(desc.arrayLength - 1), f1, f2 \in 0..(desc.faces - 1), l \in 0..(desc.levels - 2) :
         PlaneAt(desc, a1, f1, l).offset < PlaneAt(desc, a2, f2, l + 1).offset

\* C9 (amended): with MIP_MAJOR, inside one array element every plane of level
\* l precedes every plane of level l + 1, for any two faces.
C9_MipMajorWithinElement ==
   (ResetBuilt /\ args.order = MIP_MAJOR) =>
      \A a \in 0..(desc.arrayLength - 1), f1, f2 \in 0..(desc.faces - 1), l \in 0..(desc.levels - 2) :
         PlaneAt(desc, a, f1, l).offset < PlaneAt(desc, a, f2, l + 1).offset

\* A mip-major image with two array elements, two faces and at least two levels.
C9_Witness ==
   /\ ResetBuilt /\ args.order = MIP_MAJOR
   /\ desc.arrayLength = 2 /\ desc.faces = 2 /\ desc.levels >= 2

\* C10: with FACE_MAJOR the planes lie in (array, face, level) order: plane 0 is
\* at offset 0 and every later plane starts at the end of its predecessor rounded
\* up to the image alignment; so inside an array element the planes of face f
\* precede those of face f + 1.
C10_FaceMajorOrder ==
   (ResetBuilt /\ args.order = FACE_MAJOR) =>
      /\ desc.planes[1].offset = 0
      /\ \A i \in 1..(Len(desc.planes) - 1) :
            LET end == desc.planes[i].offset + desc.planes[i].size
                nxt == desc.planes[i + 1].offset
            IN  nxt >= end /\ nxt - end < desc.alignment /\ nxt % desc.alignment = 0
      /\ \A a \in 0..(desc.arrayLength - 1), f \in 0..(desc.faces - 2), l1, l2 \in 0..(desc.levels - 1) :
            PlaneAt(desc, a, f, l1).offset < PlaneAt(desc, a, f + 1, l2).offset

\* A face-major image with two array elements, two faces and three levels
\* whose planes needed padding to reach the image alignment.
C10_Witness ==
   /\ ResetBuilt /\ args.order = FACE_MAJOR
   /\ desc.arrayLength = 2 /\ desc.faces = 2 /\ desc.levels = 3
   /\ \E i \in 1..(Len(desc.planes) - 1) :
         desc.planes[i + 1].offset > desc.planes[i].offset + desc.planes[i].size

\* ------------------------------------------------------------------------
\* Properties of the two construction orders
\* ------------------------------------------------------------------------
\* The descriptor reset builds from the same arguments in the other order.
OtherOrder ==
   ImageDescReset(DefaultDesc, plane, args.arrayLength, args.faces, args.levels,
                  IF args.order = FACE_MAJOR THEN MIP_MAJOR ELSE FACE_MAJOR, args.alignment)

\* C11: for the same base plane, arrayLength, faces, levels and alignment, reset
\* with FACE_MAJOR and with MIP_MAJOR gives the same counts, alignment and total
\* size, and at every plane index the same format, extent, step, pitch, slice
\* and size; the planes differ in their offsets at most.
C11_OrderIndependent ==
   ResetBuilt =>
      \E o \in {OtherOrder} :
         /\ o.arrayLength = desc.arrayLength /\ o.faces = desc.faces /\ o.levels = desc.levels
         /\ o.alignment = desc.alignment /\ o.size = desc.size
         /\ Len(o.planes) = Len(desc.planes)
         /\ \A i \in PlaneIdx(desc) :
               /\ o.planes[i].format = desc.planes[i].format
               /\ o.planes[i].extent = desc.planes[i].extent
               /\ o.planes[i].step = desc.planes[i].step
               /\ o.planes[i].pitch = desc.planes[i].pitch
               /\ o.planes[i].slice = desc.planes[i].slice
               /\ o.planes[i].size = desc.planes[i].size

\* An image of two faces and three levels whose planes lie at other offsets in
\* the other order.
C11_Witness ==
   /\ ResetBuilt /\ desc.faces = 2 /\ desc.levels = 3 /\ desc.arrayLength = 2
   /\ \E i \in PlaneIdx(desc) : OtherOrder.planes[i].offset # desc.planes[i].offset

\* ------------------------------------------------------------------------
\* Properties of the mip chain
\* ------------------------------------------------------------------------
\* ceil(a / b)
CeilDiv(a, b) == (a + b - 1) \div b

\* The number of halvings that bring n down to 1.
Halvings(n) == CHOOSE k \in 0..31 : 2 ^ k <= n /\ n < 2 ^ (k + 1)

\* The per-level slice sizes of the BC1 256 x 256 x 1 cube map.
CubeSlices == <<32768, 8192, 2048, 512, 128, 32, 8, 8, 8>>

\* C12: reset with levels == 0 builds the full mip chain: the level count is 1 +
\* the halvings that bring the largest of width, height and depth to 1; the plane
\* at level l has extent max(1, base extent >> l) in every component, with pitch,
\* slice and size computed anew for that extent; the BC1 256 x 256 x 1 base with
\* 6 faces at alignment 4 has 9 levels with slices 32768, 8192, 2048, 512, 128,
\* 32, 8, 8, 8, 43704 bytes per face and 262224 bytes in all.
C12_FullMipChain ==
   (ResetBuilt /\ args.levels = 0) =>
      /\ desc.levels = 1 + Halvings(Max(plane.extent.w, Max(plane.extent.h, plane.extent.d)))
      /\ \A a \in 0..(desc.arrayLength - 1), f \in 0..(desc.faces - 1), l \in 0..(desc.levels - 1) :
            \E p \in {PlaneAt(desc, a, f, l)}, ld \in {layoutDesc(plane.format)} :
               /\ p.format = plane.format
               /\ p.extent = [w |-> Max(1, plane.extent.w \div (2 ^ l)),
                              h |-> Max(1, plane.extent.h \div (2 ^ l)),
                              d |-> Max(1, plane.extent.d \div (2 ^ l))]
               /\ p.step = plane.step
               /\ p.pitch >= p.step * CeilDiv(p.extent.w, ld.blockWidth)
               /\ p.slice >= p.pitch * CeilDiv(p.extent.h, ld.blockHeight)
               /\ p.size = p.slice * p.extent.d
               /\ l = 0 => (p.pitch = plane.pitch /\ p.slice = plane.slice)
               /\ l > 0 => /\ p.pitch - p.step * CeilDiv(p.extent.w, ld.blockWidth) < p.alignment
                           /\ p.slice - p.pitch * CeilDiv(p.extent.h, ld.blockHeight) < p.alignment
      /\ (plane.format = BC1_UNORM /\ plane.extent = [w |-> 256, h |-> 256, d |-> 1]
            /\ desc.faces = 6 /\ desc.alignment = 4) =>
            /\ desc.levels = 9
            /\ \A f \in 0..5, l \in 0..8 : PlaneAt(desc, 0, f, l).slice = CubeSlices[l + 1]
            /\ desc.size = 262224
            /\ desc.size = 6 * 43704

\* The cube map of the example, built with its full chain.
C12_Witness ==
   /\ ResetBuilt /\ args.levels = 0
   /\ plane.format = BC1_UNORM /\ plane.extent = [w |-> 256, h |-> 256, d |-> 1]
   /\ desc.faces = 6 /\ desc.alignment = 4 /\ Len(desc.planes) = 54

\* C13: after reset every plane offset and the total size is a multiple of the
\* alignment of the image (16 by default).
C13_OffsetsAligned ==
   ResetBuilt =>
      /\ desc.alignment > 0
      /\ \A i \in PlaneIdx(desc) : desc.planes[i].offset % desc.alignment = 0
      /\ desc.size % desc.alignment = 0

\* An image of alignment 16 with a plane past offset 0 whose size is no
\* multiple of 16.
C13_Witness ==
   /\ ResetBuilt
   /\ desc.alignment = DEFAULT_PLANE_ALIGNMENT
   /\ \E i \in PlaneIdx(desc) : desc.planes[i].offset > 0 /\ desc.planes[i].size % desc.alignment # 0

\* C14: index and coord3 are inverse to each other: index(coord3(i)) = i for
\* every i below planes.size(), and coord3(index(a, f, l)) = (a, f, l) for every
\* coordinate within arrayLength, faces and levels.
C14_IndexCoordInverse ==
   ResetBuilt =>
      /\ \A i \in 0..(Len(desc.planes) - 1) :
            \E c \in {coord3(desc, i)} :
               /\ c[1] < desc.arrayLength /\ c[2] < desc.faces /\ c[3] < desc.levels
               /\ index(desc, c[1], c[2], c[3]) = i
      /\ \A a \in 0..(desc.arrayLength - 1), f \in 0..(desc.faces - 1), l \in 0..(desc.levels - 1) :
            coord3(desc, index(desc, a, f, l)) = <<a, f, l>>

\* An image with several array elements, faces and levels.
C14_Witness ==
   /\ ResetBuilt
   /\ desc.arrayLength = 2 /\ desc.faces = 2 /\ desc.levels = 3
   /\ coord3(desc, 7) = <<1, 0, 1>>

\* ------------------------------------------------------------------------
\* Properties of the fields PlaneDesc::make computes
\* ------------------------------------------------------------------------
\* The extent argument with every zero component replaced by 1.
NormalizedExtent(e) ==
   [w |-> IF e.w = 0 THEN 1 ELSE e.w, h |-> IF e.h = 0 THEN 1 ELSE e.h, d |-> IF e.d = 0 THEN 1 ELSE e.d]

\* The plane make returned has the fields of the closed formulas, rounded to al.
MadeBy(al) ==
   \E e \in {NormalizedExtent(args.extent)}, ld \in {layoutDesc(args.format)} :
      /\ plane.format = args.format
      /\ plane.extent = e
      /\ plane.step = Max(args.step, ld.blockBytes)
      /\ plane.pitch = nextMultiple(Max(args.pitch, plane.step * CeilDiv(e.w, ld.blockWidth)), al)
      /\ plane.slice = nextMultiple(Max(args.slice, plane.pitch * CeilDiv(e.h, ld.blockHeight)), al)
      /\ plane.size = plane.slice * e.d
      /\ plane.offset = 0

\* C15 as stated: make with a valid format replaces zero extent components by 1
\* and returns step = max(step, blockBytes), pitch = nextMultiple(max(pitch,
\* step * ceil(w / blockWidth)), alignment), slice = nextMultiple(max(slice,
\* pitch * ceil(h / blockHeight)), alignment), size = slice * d and offset 0,
\* where alignment is the argument of the call.
C15_Original ==
   (pc = "made" /\ FormatValid(args.format)) => MadeBy(args.alignment)

\* C15: make with a valid format replaces zero extent components by 1 and
\* returns step = max(step, blockBytes), pitch = nextMultiple(max(pitch, step *
\* ceil(w / blockWidth)), A), slice = nextMultiple(max(slice, pitch * ceil(h /
\* blockHeight)), A), size = slice * d and offset 0, where A is the alignment
\* argument, or 4 when that argument is 0; A is the alignment of the result.
\* ASTC 6x6 at 256 x 256 with the default arguments has size 43 * 43 * 16.
C15_MakeFields ==
   (pc = "made" /\ FormatValid(args.format)) =>
      /\ MadeBy(IF args.alignment = 0 THEN 4 ELSE args.alignment)
      /\ plane.alignment = (IF args.alignment = 0 THEN 4 ELSE args.alignment)
      /\ (args.format = ASTC_6x6_UNORM /\ args.alignment = 4) => plane.size = 43 * 43 * 16

\* The ASTC plane of the example, and a call whose zero extent, step, pitch
\* and alignment arguments all take effect.
C15_Witness ==
   /\ pc = "made"
   /\ \/ args.format = ASTC_6x6_UNORM /\ args.alignment = 4 /\ plane.pitch = 688
      \/ /\ args.format = RG_8_8_UNORM /\ args.extent = [w |-> 0, h |-> 2, d |-> 0]
         /\ args.step = 3 /\ args.pitch = 7 /\ args.alignment = 0
         /\ plane.step = 3 /\ plane.pitch = 8 /\ plane.slice = 16

\* C16: make called with a non-zero alignment that is no power of two fails:
\* the result is the empty descriptor.
C16_NonPowerOfTwoFails ==
   (pc = "made" /\ args.alignment # 0 /\ args.alignment \notin {1, 2, 4, 8, 16}) => PlaneEmpty(plane)

\* ------------------------------------------------------------------------
\* Specification of the Image constructor
\* ------------------------------------------------------------------------
MaxCtorWidth == 3

Min(a, b) == IF a < b THEN a ELSE b

\* The values a byte of a fresh allocation may hold.
JunkBytes == {0, 205}

\* What rii_details::aalloc(a, s) may return: a buffer of s bytes of arbitrary
\* content, or null.
AallocResults(a, s) ==
   {[null |-> FALSE, bytes |-> b] : b \in [1..s -> JunkBytes]}
      \cup (IF aallocMayReturnNull(a, s) THEN {[null |-> TRUE, bytes |-> <<>>]} ELSE {})

\* A variant of the copy that takes the size argument as given, also when it
\* is 0.
ImageConstructCopyGivenSize(d, buffer, hasContent, content, n) ==
   IF DescEmpty(d) THEN [outcome |-> "empty", data |-> <<>>]
   ELSE IF buffer.null THEN [outcome |-> "failed", data |-> <<>>]
   ELSE IF ~hasContent THEN [outcome |-> "ok", data |-> buffer.bytes]
   ELSE [outcome |-> "ok",
         data |-> SubSeq(content, 1, Min(d.size, n)) \o SubSeq(buffer.bytes, Min(d.size, n) + 1, d.size)]

\* Image::construct(initialContent, initialContentSizeInbytes) on descriptor d,
\* where buffer is what aalloc returned.
ImageConstruct(d, buffer, hasContent, content, n) ==
   IF DescEmpty(d) THEN [outcome |-> "empty", data |-> <<>>]
   ELSE IF buffer.null THEN [outcome |-> "failed", data |-> <<>>]
   ELSE IF ~hasContent THEN [outcome |-> "ok", data |-> buffer.bytes]
   ELSE [outcome |-> "ok",
         data |-> SubSeq(content, 1, Min(d.size, IF n = 0 THEN d.size ELSE n))
                     \o SubSeq(buffer.bytes, Min(d.size, IF n = 0 THEN d.size ELSE n) + 1, d.size)]

\* The descriptors images are constructed from: the empty one, and one or two
\* faces of a row of one-byte pixels.
CtorDescs ==
   {DefaultDesc} \cup
   {ImageDescReset(DefaultDesc, PlaneDescMake(R_8_UNORM, [w |-> w, h |-> 1, d |-> 1], 0, 0, 0, al),
                   1, f, 1, FACE_MAJOR, 0) : w \in 1..MaxCtorWidth, f \in 1..2, al \in {1, 2, 3}}

\* The caller's buffer: one byte more than the image needs, all bytes distinct
\* from every byte of a fresh allocation.
Content(d) == [i \in 1..(d.size + 1) |-> i]

InitCtor ==
   /\ pc = "ctor" /\ args = NoArgs /\ plane = EmptyPlane /\ desc = DefaultDesc
   /\ assertFailed = FALSE /\ srcData = <<>> /\ dstData = <<>> /\ stream = <<>>
   /\ pixels = <<>> /\ outcome = "none"

\* Image::Image(desc, initialContent, initialContentSizeInbytes)
Construct ==
   /\ pc = "ctor"
   /\ \E d \in CtorDescs, hasContent \in BOOLEAN :
      \E n \in 0..(d.size + 1), buffer \in AallocResults(d.alignment, d.size) :
      \E r \in {ImageConstruct(d, buffer, hasContent, Content(d), n)} :
         /\ args' = [op |-> "Image", hasContent |-> hasContent, n |-> n]
         /\ desc' = d
         /\ srcData' = (IF hasContent THEN Content(d) ELSE <<>>)
         /\ pixels' = buffer.bytes
         /\ dstData' = r.data
         /\ outcome' = r.outcome
   /\ pc' = "constructed"
   /\ UNCHANGED <<plane, assertFailed, stream>>

NextCtor == Construct

SpecCtor == InitCtor /\ [][NextCtor]_vars

\* The number of leading bytes of the image buffer the constructor overwrote
\* with the caller's bytes: every later byte is as the allocation left it.
CopiedAtMost(k) ==
   /\ Len(dstData) = desc.size
   /\ \A i \in 1..desc.size : i > k => dstData[i] = pixels[i]

FloatZero == [s |-> 0, e |-> 0, m |-> 0]

FloatOne == [s |-> 0, e |-> 127, m |-> 0]

FloatNaN == [s |-> 0, e |-> 255, m |-> 4194304]

IsNaN(x) == x.e = 255 /\ x.m # 0

IsInf(x) == x.e = 255 /\ x.m = 0

IsZero(x) == x.e = 0 /\ x.m = 0

\* Round to nearest, ties to even: q is the 24-bit significand, rem what was cut
\* off below it, half the weight of half a unit of q.
RoundFloat(q, rem, half, e) ==
   IF rem > half \/ (rem = half /\ q % 2 = 1)
   THEN IF q + 1 = 16777216 THEN [s |-> 0, e |-> e + 1, m |-> 0] ELSE [s |-> 0, e |-> e, m |-> q + 1 - 8388608]
   ELSE [s |-> 0, e |-> e, m |-> q - 8388608]

\* floor(log2(v)) for 0 < v < 2^31
Log2(v) == CHOOSE k \in 0..30 : 2 ^ k <= v /\ (v \div 2) < 2 ^ k

\* (float) v for an unsigned v below 2^31
UIntToFloat(v) ==
   IF v = 0 THEN FloatZero
   ELSE IF Log2(v) <= 23 THEN [s |-> 0, e |-> 127 + Log2(v), m |-> (v - (2 ^ Log2(v))) * (2 ^ (23 - Log2(v)))]
   ELSE RoundFloat(v \div (2 ^ (Log2(v) - 23)), v % (2 ^ (Log2(v) - 23)), 2 ^ (Log2(v) - 24), 127 + Log2(v))

\* (float) mask for mask = 2^width - 1; 2^31 - 1 and 2^32 - 1 round to 2^width.
MaskToFloat(width) ==
   IF width < 31 THEN UIntToFloat((2 ^ width) - 1) ELSE [s |-> 0, e |-> 127 + width, m |-> 0]

\* The long division of two significands: n quotient bits of rem / B, rem < 2B.
RECURSIVE DivBits(_, _, _, _)
DivBits(rem, B, n, q) ==
   IF n = 0 THEN <<q, rem>>
   ELSE IF rem >= B THEN DivBits(2 * (rem - B), B, n - 1, 2 * q + 1)
   ELSE DivBits(2 * rem, B, n - 1, 2 * q)

FDivRounded(qr, B, e) == RoundFloat(qr[1], qr[2], B, e)

\* a / b for non-negative a and b whose quotient is zero, NaN, infinite or normal
FDiv(a, b) ==
   IF IsNaN(a) \/ IsNaN(b) \/ (IsZero(a) /\ IsZero(b)) \/ (IsInf(a) /\ IsInf(b)) THEN FloatNaN
   ELSE IF IsZero(b) \/ IsInf(a) THEN [s |-> 0, e |-> 255, m |-> 0]
   ELSE IF IsZero(a) \/ IsInf(b) THEN FloatZero
   ELSE IF a.m >= b.m
        THEN FDivRounded(DivBits(8388608 + a.m, 8388608 + b.m, 24, 0), 8388608 + b.m, a.e - b.e + 127)
        ELSE FDivRounded(DivBits(2 * (8388608 + a.m), 8388608 + b.m, 24, 0), 8388608 + b.m, a.e - b.e + 126)

\* The 48-bit product of two significands A and B as <<hi, lo>>, hi * 2^24 + lo.
MulLimbs(A, B) ==
   <<(A \div 4096) * (B \div 4096)
        + ((A \div 4096) * (B % 4096) + (A % 4096) * (B \div 4096)) \div 4096
        + ((A % 4096) * (B % 4096) + (((A \div 4096) * (B % 4096) + (A % 4096) * (B \div 4096)) % 4096) * 4096) \div 16777216,
     ((A % 4096) * (B % 4096) + (((A \div 4096) * (B % 4096) + (A % 4096) * (B \div 4096)) % 4096) * 4096) % 16777216>>

FMulRounded(p, e) ==
   IF p[1] >= 8388608
   THEN RoundFloat(p[1], p[2], 8388608, e + 1)
   ELSE RoundFloat(2 * p[1] + (p[2] \div 8388608), p[2] % 8388608, 4194304, e)

\* a * b for non-negative a and b whose product is zero, NaN, infinite or normal
FMul(a, b) ==
   IF IsNaN(a) \/ IsNaN(b) \/ (IsZero(a) /\ IsInf(b)) \/ (IsInf(a) /\ IsZero(b)) THEN FloatNaN
   ELSE IF IsInf(a) \/ IsInf(b) THEN [s |-> 0, e |-> 255, m |-> 0]
   ELSE IF IsZero(a) \/ IsZero(b) THEN FloatZero
   ELSE FMulRounded(MulLimbs(8388608 + a.m, 8388608 + b.m), a.e + b.e - 127)

\* a > b for non-negative a and b
FGreater(a, b) ==
   /\ ~IsNaN(a) /\ ~IsNaN(b)
   /\ a.e > b.e \/ (a.e = b.e /\ a.m > b.m)

\* The sum of the significands A * 8 and B * 8 / 2^d, the bits shifted out of B
\* kept as a sticky lowest bit; d is at most 27.
FAddBits(A, B, d) ==
   A * 8 + ((B * 8) \div (2 ^ d))
      + (IF ((B * 8) \div (2 ^ d)) % 2 = 0 /\ (B * 8) % (2 ^ d) # 0 THEN 1 ELSE 0)

FAddRounded(S, e) ==
   IF S >= 134217728
   THEN RoundFloat(S \div 16, S % 16, 8, e + 1)
   ELSE RoundFloat(S \div 8, S % 8, 4, e)

\* a + b for non-negative a and b that are zero, NaN, infinite or normal
FAdd(a, b) ==
   IF IsNaN(a) \/ IsNaN(b) THEN FloatNaN
   ELSE IF IsInf(a) \/ IsInf(b) THEN [s |-> 0, e |-> 255, m |-> 0]
   ELSE IF IsZero(a) THEN b
   ELSE IF IsZero(b) THEN a
   ELSE IF FGreater(b, a) THEN FAddRounded(FAddBits(8388608 + b.m, 8388608 + a.m, Min(b.e - a.e, 27)), b.e)
   ELSE FAddRounded(FAddBits(8388608 + a.m, 8388608 + b.m, Min(a.e - b.e, 27)), a.e)

\* (uint32_t) x.  The conversion of a NaN, of a negative value and of a value
\* that does not fit is undefined: ub is what the build produces then.  Values
\* from 2^31 on are beyond the integers used here and take the same branch.
FToUInt(x, ub) ==
   IF x.e = 255 \/ (x.s = 1 /\ x.e >= 127) \/ x.e >= 127 + 31 THEN ub
   ELSE IF x.e < 127 THEN 0
   ELSE IF x.e <= 127 + 23 THEN (8388608 + x.m) \div (2 ^ (23 - (x.e - 127)))
   ELSE (8388608 + x.m) * (2 ^ (x.e - 127 - 23))

\* ------------------------------------------------------------------------
\* OnePixel and the conversion of one pixel to and from Float4
\* ------------------------------------------------------------------------
\* What fromFloat and toFloat return when they throw.
Unsupported == [s |-> 2, e |-> 0, m |-> 0]

\* fromFloat(value, width, sign); -1 when it throws.  Channel values stay below
\* 2^31; ~0u is given by its low 31 bits.
fromFloat(value, width, sign, ub) ==
   IF sign = SIGN_UNORM
   THEN FToUInt(FMul(IF value.s = 1 /\ ~IsNaN(value) /\ ~IsZero(value) THEN FloatZero
                     ELSE IF FGreater(value, FloatOne) THEN FloatOne ELSE value,
                     MaskToFloat(width)), ub)
   ELSE IF sign = SIGN_FLOAT
   THEN IF width = 32 THEN value.s * 1073741824 * 2 + value.e * 8388608 + value.m
        ELSE IF width \in {16, 11, 10}
        THEN IF IsZero(value) THEN 0
             ELSE IF IsNaN(value) THEN 2147483647
             ELSE IF IsInf(value)
                  THEN (IF width = 16 THEN (IF value.s = 0 THEN 31 * 1024 ELSE 63 * 1024)
                        ELSE IF width = 11 THEN 31 * 64 ELSE 31 * 32)
             ELSE IF width = 16
                  THEN value.s * 32768 + ((value.e - 112) % 32) * 1024 + (value.m \div 8192)
             ELSE IF width = 11
                  THEN ((value.e - 112) % 32) * 64 + ((value.m \div 131072) % 64)
             ELSE ((value.e - 112) % 32) * 32 + ((value.m \div 262144) % 32)
        ELSE -1
   ELSE IF sign = SIGN_UINT
   THEN IF FGreater(value, MaskToFloat(width)) THEN (2 ^ width) - 1 ELSE FToUInt(value, ub)
   ELSE -1

\* toFloat(value, width, sign); Unsupported when it throws.
toFloat(value, width, sign) ==
   IF sign = SIGN_UNORM
   THEN FDiv(UIntToFloat(IF width < 31 THEN value % (2 ^ width) ELSE value), MaskToFloat(width))
   ELSE IF sign = SIGN_FLOAT
   THEN IF width = 32 THEN [s |-> (value \div 1073741824) \div 2, e |-> (value \div 8388608) % 256, m |-> value % 8388608]
        ELSE IF width = 16
        THEN [s |-> (value \div 32768) % 2, e |-> ((value \div 1024) % 32) + 112, m |-> (value % 1024) * 8192]
        ELSE IF width = 11
        THEN [s |-> 0, e |-> (((value \div 64) % 32) + 112) % 256, m |-> (value % 64) * 131072]
        ELSE IF width = 10
        THEN [s |-> 0, e |-> (((value \div 32) % 32) + 112) % 256, m |-> (value % 32) * 262144]
        ELSE Unsupported
   ELSE IF sign = SIGN_UINT
   THEN UIntToFloat(IF width < 31 THEN value % (2 ^ width) ELSE value)
   ELSE Unsupported

\* getSign(format, channel)
getSign(format, channel) ==
   IF channel = 0 THEN format.sign0 ELSE IF channel = 3 THEN format.sign3 ELSE format.sign12

\* OnePixel::make(data, size): the 16 bytes of the union, zero past the pixel.
OnePixelMake(data, size) == [i \in 1..16 |-> IF i <= size THEN data[i] ELSE 0]

\* Bit i (from 0) of the 128 bits of a OnePixel.
PixelBit(px, i) == (px[(i \div 8) + 1] \div (2 ^ (i % 8))) % 2

\* The value of count bits of px from bit offset on, cut at bit limit.
RECURSIVE BitsFrom(_, _, _, _)
BitsFrom(px, offset, count, limit) ==
   IF count = 0 \/ offset >= limit THEN 0
   ELSE PixelBit(px, offset) + 2 * BitsFrom(px, offset + 1, count - 1, limit)

\* OnePixel::segment(offset, count), a uint32_t; -1 when it throws.
segment(px, offset, count) ==
   IF offset + count <= 64 THEN BitsFrom(px, offset, IF count < 32 THEN count ELSE 32, 64)
   ELSE IF offset >= 64 THEN BitsFrom(px, offset, IF count < 32 THEN count ELSE 32, 128)
   ELSE -1

\* Bit i of the OnePixel after (value & mask) << offset was or-ed in, where
\* mask has count bits.
OrBit(px, value, offset, count, i) ==
   IF PixelBit(px, i) = 1 THEN 1
   ELSE IF i >= offset /\ i - offset < count /\ i - offset < 31 THEN (value \div (2 ^ (i - offset))) % 2
   ELSE 0

\* OnePixel::set(value, offset, count): the bits are or-ed into lo or into hi;
\* <<>> when it throws.
set(px, value, offset, count) ==
   IF offset + count <= 64 \/ offset >= 64
   THEN [j \in 1..16 |->
           OrBit(px, value, offset, count, 8 * j - 8) + OrBit(px, value, offset, count, 8 * j - 7) * 2
           + OrBit(px, value, offset, count, 8 * j - 6) * 4 + OrBit(px, value, offset, count, 8 * j - 5) * 8
           + OrBit(px, value, offset, count, 8 * j - 4) * 16 + OrBit(px, value, offset, count, 8 * j - 3) * 32
           + OrBit(px, value, offset, count, 8 * j - 2) * 64 + OrBit(px, value, offset, count, 8 * j - 1) * 128]
   ELSE <<>>

\* The channel a slot of swizzle sw reads or writes: ld.channels[sw], which for
\* the constants 0 and 1 lies behind the four channels of the layout (oob).
ChannelOf(ld, sw, oob) == IF sw < 4 THEN ld.channels[sw + 1] ELSE oob

\* The lambda convertToChannel of loadFromFloat4, applied to result.
convertToChannel(format, float4, result, sw, ub, oob) ==
   IF result = <<>> THEN <<>>
   ELSE IF sw = SWIZZLE_0 THEN set(result, 0, ChannelOf(layoutDesc(format), sw, oob)[1], ChannelOf(layoutDesc(format), sw, oob)[2])
   ELSE IF sw = SWIZZLE_1 THEN set(result, 1, ChannelOf(layoutDesc(format), sw, oob)[1], ChannelOf(layoutDesc(format), sw, oob)[2])
   ELSE IF sw > SWIZZLE_1 THEN <<>>
   ELSE IF fromFloat(float4[sw + 1], layoutDesc(format).channels[sw + 1][2], getSign(format, sw), ub) = -1 THEN <<>>
   ELSE set(result, fromFloat(float4[sw + 1], layoutDesc(format).channels[sw + 1][2], getSign(format, sw), ub),
            layoutDesc(format).channels[sw + 1][1], layoutDesc(format).channels[sw + 1][2])

\* PixelFormat::loadFromFloat4(pixel): the OnePixel, <<>> when it throws.
loadFromFloat4(format, float4, ub, oob) ==
   convertToChannel(format, float4,
      convertToChannel(format, float4,
         convertToChannel(format, float4,
            convertToChannel(format, float4, [j \in 1..16 |-> 0], format.swizzle0, ub, oob),
            format.swizzle1, ub, oob),
         format.swizzle2, ub, oob),
      format.swizzle3, ub, oob)

\* The lambda convertChannel of storeToFloat4.
convertChannel(format, src, sw) ==
   IF sw = SWIZZLE_0 THEN FloatZero
   ELSE IF sw = SWIZZLE_1 THEN FloatOne
   ELSE IF sw > SWIZZLE_1 \/ segment(src, layoutDesc(format).channels[sw + 1][1], layoutDesc(format).channels[sw + 1][2]) = -1
        THEN Unsupported
   ELSE toFloat(segment(src, layoutDesc(format).channels[sw + 1][1], layoutDesc(format).channels[sw + 1][2]),
                layoutDesc(format).channels[sw + 1][2], getSign(format, sw))

\* PixelFormat::storeToFloat4(pixel), as <<x, y, z, w>>
storeToFloat4(format, data) ==
   <<convertChannel(format, OnePixelMake(data, layoutDesc(format).blockBytes), format.swizzle0),
     convertChannel(format, OnePixelMake(data, layoutDesc(format).blockBytes), format.swizzle1),
     convertChannel(format, OnePixelMake(data, layoutDesc(format).blockBytes), format.swizzle2),
     convertChannel(format, OnePixelMake(data, layoutDesc(format).blockBytes), format.swizzle3)>>

\* getSwizzledChannel(format, channel): (format.u32 << (20 + channel * 3)) & 0x7.
\* The low three bits of the product are those of (u32 mod 8) * (2^k mod 8).
getSwizzledChannel(format, channel) ==
   ((FormatBytes(format)[1] % 8) * ((2 ^ (20 + channel * 3)) % 8)) % 8

\* PixelFormat::getPixelChannelFloat(pixel, channel)
getPixelChannelFloat(format, data, channel) ==
   convertChannel(format, OnePixelMake(data, layoutDesc(format).blockBytes), getSwizzledChannel(format, channel))

\* ------------------------------------------------------------------------
\* PlaneDesc::generateMipmaps
\* ------------------------------------------------------------------------
\* The bytes of the pixel of plane p at (x, y, z) in data.
PixelAt(data, p, x, y, z) ==
   SubSeq(data, pixel(p, x, y, z) + 1, pixel(p, x, y, z) + layoutDesc(p.format).blockBytes)

\* Float4 operator += and operator *=; a component that could not be decoded
\* stays so.
Float4Add(a, b) ==
   [i \in 1..4 |-> IF a[i] = Unsupported \/ b[i] = Unsupported THEN Unsupported ELSE FAdd(a[i], b[i])]

Float4Scale(a, k) ==
   [i \in 1..4 |-> IF a[i] = Unsupported THEN Unsupported ELSE FMul(a[i], k)]

\* The sum of the first i pixels of the block of s = <<sx, sy, sz>> source
\* pixels under the destination pixel c = <<x, y, z>>.
RECURSIVE sumBlock(_, _, _, _, _)
sumBlock(data, src, s, c, i) ==
   IF i = 0 THEN <<FloatZero, FloatZero, FloatZero, FloatZero>>
   ELSE Float4Add(sumBlock(data, src, s, c, i - 1),
                  storeToFloat4(src.format,
                                PixelAt(data, src, c[1] * s[1] + ((i - 1) % s[1]),
                                                   c[2] * s[2] + (((i - 1) \div s[1]) % s[2]),
                                                   c[3] * s[3] + ((i - 1) \div (s[1] * s[2])))))

\* data with the first ps bytes of the OnePixel avg written at offset; <<>>
\* when the conversion threw.
writePixel(data, avg, offset, ps) ==
   IF avg = <<>> THEN <<>>
   ELSE [j \in 1..Len(data) |-> IF j > offset /\ j <= offset + ps THEN avg[j - offset] ELSE data[j]]

\* The body of the loops over the destination pixels of generateMipmap.
averagePixel(data, src, dst, s, c, ub, oob) ==
   IF \E i \in 1..4 : sumBlock(data, src, s, c, s[1] * s[2] * s[3])[i] = Unsupported THEN <<>>
   ELSE writePixel(data,
                   loadFromFloat4(dst.format,
                                  Float4Scale(sumBlock(data, src, s, c, s[1] * s[2] * s[3]),
                                              FDiv(FloatOne, UIntToFloat(s[1] * s[2] * s[3]))),
                                  ub, oob),
                   pixel(dst, c[1], c[2], c[3]), layoutDesc(src.format).blockBytes)

\* The first n destination pixels of generateMipmap, x fastest.
RECURSIVE mipPixels(_, _, _, _, _, _, _)
mipPixels(data, src, dst, s, n, ub, oob) ==
   IF n = 0 THEN data
   ELSE IF mipPixels(data, src, dst, s, n - 1, ub, oob) = <<>> THEN <<>>
   ELSE averagePixel(mipPixels(data, src, dst, s, n - 1, ub, oob), src, dst, s,
                     <<(n - 1) % dst.extent.w, ((n - 1) \div dst.extent.w) % dst.extent.h,
                       (n - 1) \div (dst.extent.w * dst.extent.h)>>, ub, oob)

\* Local::generateMipmap(data, src, dst): the bytes of the image afterwards,
\* <<>> when an assertion fails or a conversion throws.
generateMipmap(data, src, dst, ub, oob) ==
   IF \/ ~(src.extent.w = 1 \/ src.extent.w = dst.extent.w * 2)
      \/ ~(src.extent.h = 1 \/ src.extent.h = dst.extent.h * 2)
      \/ ~(src.extent.d = 1 \/ src.extent.d = dst.extent.d * 2)
      \/ (src.extent.w \div dst.extent.w) * (src.extent.h \div dst.extent.h) * (src.extent.d \div dst.extent.d) > 8
      \/ layoutDesc(src.format).blockBytes > 16
   THEN <<>>
   ELSE mipPixels(data, src, dst,
                  <<src.extent.w \div dst.extent.w, src.extent.h \div dst.extent.h, src.extent.d \div dst.extent.d>>,
                  dst.extent.w * dst.extent.h * dst.extent.d, ub, oob)

\* The loop of generateMipmaps over the planes from plane i on.
RECURSIVE mipLoop(_, _, _, _, _)
mipLoop(data, d, i, ub, oob) ==
   IF i >= Len(d.planes) \/ data = <<>> THEN data
   ELSE IF coord3(d, i)[3] = 0 THEN mipLoop(data, d, i + 1, ub, oob)
   ELSE mipLoop(generateMipmap(data,
                               d.planes[index(d, coord3(d, i)[1], coord3(d, i)[2], coord3(d, i)[3] - 1) + 1],
                               d.planes[i + 1], ub, oob),
                d, i + 1, ub, oob)

\* The descriptor of the result image: ImageDesc {}.reset(PlaneDesc::make(format, extent), 1, maxLevels)
mipmapsDesc(p, maxLevels) ==
   ImageDescReset(DefaultDesc, PlaneDescMake(p.format, p.extent, 0, 0, 0, 4),
                  1, maxLevels, 1, FACE_MAJOR, DEFAULT_PLANE_ALIGNMENT)

\* PlaneDesc::generateMipmaps(pixels, maxLevels) on plane p, where buffer is
\* what aalloc returned to the constructor of the result image.  Without a
\* buffer the copy of the base map writes through a null pointer.
generateMipmaps(p, data, maxLevels, buffer, ub, oob) ==
   IF DescEmpty(mipmapsDesc(p, maxLevels)) \/ buffer.null
   THEN [outcome |-> "crash", desc |-> mipmapsDesc(p, maxLevels), data |-> <<>>]
   ELSE [outcome |-> "ok", desc |-> mipmapsDesc(p, maxLevels),
         data |-> mipLoop([j \in 1..mipmapsDesc(p, maxLevels).size |->
                              IF /\ j > mipmapsDesc(p, maxLevels).planes[1].offset
                                 /\ j <= mipmapsDesc(p, maxLevels).planes[1].offset + mipmapsDesc(p, maxLevels).planes[1].size
                              THEN data[j - mipmapsDesc(p, maxLevels).planes[1].offset]
                              ELSE buffer.bytes[j]],
                          mipmapsDesc(p, maxLevels), 0, ub, oob)]

\* ------------------------------------------------------------------------
\* Specification of the pixel conversions
\* ------------------------------------------------------------------------
\* Layouts with the sign of all their channels.
PixelLayouts ==
   {<<LAYOUT_8_8, SIGN_UNORM>>, <<LAYOUT_8_8_8_8, SIGN_UNORM>>, <<LAYOUT_5_6_5, SIGN_UNORM>>,
    <<LAYOUT_16, SIGN_UINT>>, <<LAYOUT_32, SIGN_FLOAT>>}

\* The four swizzles of a format.
SwizzleArgs ==
   {<<SWIZZLE_X, SWIZZLE_Y, SWIZZLE_Z, SWIZZLE_W>>, <<SWIZZLE_Z, SWIZZLE_Y, SWIZZLE_X, SWIZZLE_W>>,
    <<SWIZZLE_X, SWIZZLE_Y, SWIZZLE_0, SWIZZLE_1>>, <<SWIZZLE_X, SWIZZLE_0, SWIZZLE_0, SWIZZLE_1>>,
    <<SWIZZLE_Y, SWIZZLE_X, SWIZZLE_0, SWIZZLE_1>>, <<SWIZZLE_X, SWIZZLE_X, SWIZZLE_X, SWIZZLE_Y>>,
    <<SWIZZLE_1, SWIZZLE_1, SWIZZLE_1, SWIZZLE_X>>}

\* PixelFormat::make(l, si0, si12, si3, sw0, sw1, sw2, sw3) for these.
PixelFormats ==
   {PixelFormatMake(l[1], l[2], l[2], l[2], sw[1], sw[2], sw[3], sw[4]) : l \in PixelLayouts, sw \in SwizzleArgs}

ByteValues == {0, 1, 100, 255}

\* The pixels of format f; the top bit of a 32-bit channel is clear.
PixelsOf(f) ==
   {b \in [1..layoutDesc(f).blockBytes -> ByteValues] : layoutDesc(f).blockBytes = 4 /\ f.layout = LAYOUT_32 => b[4] < 128}

\* What the conversion of a NaN to uint32_t may give.
UBValues == {0, 255, 2147483647}

\* What ld.channels[4] and ld.channels[5] may hold, as <<shift, bits>>.
OutOfBoundsChannels == {<<0, 0>>, <<17, 1>>, <<0, 8>>}

InitPixel ==
   /\ pc = "pixel" /\ args = NoArgs /\ plane = EmptyPlane /\ desc = DefaultDesc
   /\ assertFailed = FALSE /\ srcData = <<>> /\ dstData = <<>> /\ stream = <<>>
   /\ pixels = <<>> /\ outcome = "none"

\* format.storeToFloat4(pixel)
StoreToFloat4 ==
   /\ pc = "pixel"
   /\ \E f \in PixelFormats : \E b \in PixelsOf(f) : \E r \in {storeToFloat4(f, b)} :
         /\ args' = [op |-> "storeToFloat4", format |-> f]
         /\ srcData' = b
         /\ pixels' = r
         /\ outcome' = (IF \E i \in 1..4 : r[i] = Unsupported THEN "thrown" ELSE "ok")
   /\ pc' = "stored"
   /\ UNCHANGED <<plane, desc, assertFailed, dstData, stream>>

\* format.loadFromFloat4(float4) on the Float4 storeToFloat4 returned
LoadFromFloat4 ==
   /\ pc = "stored" /\ outcome = "ok"
   /\ \E ub \in UBValues, oob \in OutOfBoundsChannels : \E r \in {loadFromFloat4(args.format, pixels, ub, oob)} :
         /\ dstData' = r
         /\ outcome' = (IF r = <<>> THEN "thrown" ELSE "ok")
   /\ args' = [args EXCEPT !.op = "loadFromFloat4"]
   /\ pc' = "loaded"
   /\ UNCHANGED <<plane, desc, assertFailed, srcData, stream, pixels>>

\* format.getPixelChannelFloat(pixel, channel) on the pixel given to storeToFloat4
GetPixelChannelFloat ==
   /\ pc = "stored"
   /\ \E c \in 0..3 :
         /\ args' = [op |-> "getPixelChannelFloat", format |-> args.format, channel |-> c]
         /\ stream' = <<getPixelChannelFloat(args.format, srcData, c)>>
   /\ pc' = "channel"
   /\ UNCHANGED <<plane, desc, assertFailed, srcData, dstData, pixels, outcome>>

\* The planes mipmaps are generated from: PlaneDesc::make(format, extent).
MaxMipExtent == 4

MipPlanes ==
   {PlaneDescMake(f, [w |-> w, h |-> h, d |-> 1], 0, 0, 0, 4) :
       f \in {R_8_UNORM, RGBA_8_8_8_8_UNORM}, w \in {1, 2, MaxMipExtent}, h \in {1, 2}}

MaxMipLevels == 3

\* What aalloc may return for the result image: a block filled with one of
\* the junk bytes, or no block.
MipAllocations(a, s) ==
   {[null |-> FALSE, bytes |-> [i \in 1..s |-> j]] : j \in JunkBytes}
      \cup (IF aallocMayReturnNull(a, s) THEN {[null |-> TRUE, bytes |-> <<>>]} ELSE {})

\* plane.generateMipmaps(pixels, maxLevels)
GenerateMipmaps ==
   /\ pc = "pixel"
   /\ \E p \in MipPlanes, maxLevels \in 0..MaxMipLevels, ub \in UBValues, oob \in OutOfBoundsChannels :
      \E buffer \in MipAllocations(mipmapsDesc(p, maxLevels).alignment, mipmapsDesc(p, maxLevels).size) :
      \E r \in {generateMipmaps(p, [i \in 1..p.size |-> i], maxLevels, buffer, ub, oob)} :
         /\ args' = [op |-> "generateMipmaps", maxLevels |-> maxLevels]
         /\ plane' = p
         /\ srcData' = [i \in 1..p.size |-> i]
         /\ desc' = r.desc
         /\ dstData' = r.data
         /\ outcome' = (IF r.outcome = "ok" /\ r.data = <<>> THEN "thrown" ELSE r.outcome)
   /\ pc' = "mipmaps"
   /\ UNCHANGED <<assertFailed, stream, pixels>>

NextPixel == StoreToFloat4 \/ LoadFromFloat4 \/ GetPixelChannelFloat \/ GenerateMipmaps

SpecPixel == InitPixel /\ [][NextPixel]_vars

\* ------------------------------------------------------------------------
\* Properties of the pixel conversions
\* ------------------------------------------------------------------------
\* The swizzle of slot c (0..3) of format f.
SwizzleOf(f, c) ==
   IF c = 0 THEN f.swizzle0 ELSE IF c = 1 THEN f.swizzle1 ELSE IF c = 2 THEN f.swizzle2 ELSE f.swizzle3

\* Bit i lies in a channel that a slot swizzled to X, Y, Z or W selects and
\* whose sign is UNORM, UINT or FLOAT with 32 bits.
SelectedBit(f, i) ==
   \E c \in 0..3 :
      /\ SwizzleOf(f, c) < SWIZZLE_0
      /\ \E ch \in {layoutDesc(f).channels[SwizzleOf(f, c) + 1]} :
            /\ ch[1] <= i /\ i < ch[1] + ch[2]
            /\ \/ getSign(f, SwizzleOf(f, c)) \in {SIGN_UNORM, SIGN_UINT}
               \/ getSign(f, SwizzleOf(f, c)) = SIGN_FLOAT /\ ch[2] = 32

\* C19: for an uncompressed valid format f and a pixel b of f.blockBytes bytes,
\* f.loadFromFloat4(f.storeToFloat4(b)) agrees with b in every bit of a channel
\* that a slot swizzled to X, Y, Z or W selects and whose sign is UNORM, UINT or
\* FLOAT32; slots swizzled to the constants 0 and 1 add nothing to the result.
C19_RoundTrip ==
   pc = "loaded" =>
      /\ outcome = "ok"
      /\ \A i \in 0..127 :
            IF SelectedBit(args.format, i)
            THEN PixelBit(dstData, i) = PixelBit(OnePixelMake(srcData, Len(srcData)), i)
            ELSE (\E c \in 0..3 : SwizzleOf(args.format, c) >= SWIZZLE_0) => PixelBit(dstData, i) = 0

\* C20: for an uncompressed valid format f, a pixel p and a slot c in 0..3,
\* f.getPixelChannelFloat(p, c) is component c of f.storeToFloat4(p): the value
\* of the channel slot c selects, and exactly 0.0 or 1.0 when slot c is
\* swizzled to the constant 0 or 1.
C20_ChannelFloat ==
   (pc = "channel" /\ outcome = "ok") =>
      /\ stream[1] = pixels[args.channel + 1]
      /\ SwizzleOf(args.format, args.channel) = SWIZZLE_0 => stream[1] = FloatZero
      /\ SwizzleOf(args.format, args.channel) = SWIZZLE_1 => stream[1] = FloatOne

\* C17: generateMipmaps(pixels, maxLevels) returns an image of one array
\* element and one face whose level-0 plane holds the bytes of the input
\* plane; it has the full mip chain of the plane's extent when maxLevels is 0
\* and at most maxLevels levels otherwise; from a 1x1x1 plane it has exactly
\* one plane.
C17_MipmapImage ==
   pc = "mipmaps" =>
      /\ outcome = "ok"
      /\ desc.arrayLength = 1 /\ desc.faces = 1
      /\ SubSeq(dstData, desc.planes[1].offset + 1, desc.planes[1].offset + desc.planes[1].size) = srcData
      /\ args.maxLevels = 0 =>
            desc.levels = 1 + Halvings(Max(plane.extent.w, Max(plane.extent.h, plane.extent.d)))
      /\ args.maxLevels # 0 => desc.levels <= args.maxLevels
      /\ (plane.extent.w = 1 /\ plane.extent.h = 1 /\ plane.extent.d = 1) => Len(desc.planes) = 1

\* ------------------------------------------------------------------------
\* Specification of the construction of pixel formats
\* ------------------------------------------------------------------------
\* PixelFormat::bitsPerPixel(): the quotient, truncated twice, as uint8_t.
bitsPerPixel(f) ==
   (((layoutDesc(f).blockBytes * 8) \div layoutDesc(f).blockWidth) \div layoutDesc(f).blockHeight) % 256

\* PixelFormat::bytesPerBlock()
bytesPerBlock(f) == layoutDesc(f).blockBytes

\* The Swizzle4 constants.
Swizzle4Args ==
   {SWIZZLE_XYZW, SWIZZLE_ZYXW, SWIZZLE_XYZ1, SWIZZLE_ZYX1, SWIZZLE_XXXY, SWIZZLE_XY00, SWIZZLE_XY01,
    SWIZZLE_X001, SWIZZLE_XXX1, SWIZZLE_111X, SWIZZLE_0Y01}

InitFormat ==
   /\ pc = "format" /\ args = NoArgs /\ plane = EmptyPlane /\ desc = DefaultDesc
   /\ assertFailed = FALSE /\ srcData = <<>> /\ dstData = <<>> /\ stream = <<>>
   /\ pixels = <<>> /\ outcome = "none"

\* PixelFormat::make(l, si0123, sw0123) on a layout of the table other than
\* LAYOUT_UNKNOWN
MakeSwizzle4 ==
   /\ pc = "format"
   /\ \E l \in 1..(NUM_COLOR_LAYOUTS - 1), si \in {SIGN_UNORM, SIGN_UINT, SIGN_FLOAT}, sw \in Swizzle4Args :
         args' = [op |-> "make", swizzle4 |-> sw, format |-> PixelFormatMake1(l, si, sw)]
   /\ pc' = "formatMade"
   /\ UNCHANGED <<plane, desc, assertFailed, srcData, dstData, stream, pixels, outcome>>

\* format.bitsPerPixel() and format.bytesPerBlock()
BitsPerPixel ==
   /\ pc = "formatMade"
   /\ stream' = <<bitsPerPixel(args.format), bytesPerBlock(args.format)>>
   /\ pc' = "bits"
   /\ UNCHANGED <<args, plane, desc, assertFailed, srcData, dstData, pixels, outcome>>

NextFormat == MakeSwizzle4 \/ BitsPerPixel

SpecFormat == InitFormat /\ [][NextFormat]_vars

\* C21: for every layout of the table other than LAYOUT_UNKNOWN,
\* blockBytes * 8 = blockWidth * blockHeight * bitsPerPixel().
C21_BlockBits ==
   pc = "bits" =>
      layoutDesc(args.format).blockBytes * 8
         = layoutDesc(args.format).blockWidth * layoutDesc(args.format).blockHeight * stream[1]

\* C30: a format built by a Swizzle4 overload of make carries in swizzle0 to
\* swizzle3 the four 3-bit swizzles of the Swizzle4 constant, the constants 0
\* and 1 included.
C30_Swizzle4Kept ==
   pc = "formatMade" =>
      /\ args.format.swizzle0 = (args.swizzle4 \div 1) % 8
      /\ args.format.swizzle1 = (args.swizzle4 \div 8) % 8
      /\ args.format.swizzle2 = (args.swizzle4 \div 64) % 8
      /\ args.format.swizzle3 = (args.swizzle4 \div 512) % 8

\* ------------------------------------------------------------------------
\* Properties of the codecs
\* ------------------------------------------------------------------------
\* The stream begins with the tag 'RIL_' and a version.
BeginsWithRILTag(b) ==
   Len(b) >= SizeofRILFileTag /\ b[1] = 82 /\ b[2] = 73 /\ b[3] = 76 /\ b[4] = 95

\* C22: loading a stream that begins with the tag 'RIL_' and a version other
\* than 1 fails: the descriptor is not assigned, no pixel buffer is returned
\* or asked for, the pixel blob is not read, and Image::load returns an empty
\* Image.
C22_VersionRejected ==
   (pc = "loaded" /\ BeginsWithRILTag(SubSeq(stream, args.begin + 1, Len(stream)))
                  /\ U32(stream, args.begin + 4) # 1) =>
      /\ outcome = "failed"
      /\ pixels = <<>>
      /\ ~args.asked
      /\ desc = args.target
      /\ args.op = "Image::load" => DescEmpty(desc)

\* Image::load of a complete RIL file whose version was overwritten with 2.
C22_Witness ==
   /\ pc = "loaded" /\ args.op = "Image::load" /\ args.kind = "ril"
   /\ BeginsWithRILTag(stream) /\ U32(stream, 4) = 2
   /\ Len(stream) = SizeofRILFileTag + SizeofRILHeaderV1 + SizeofPlaneDesc + 8
   /\ outcome = "failed" /\ DescEmpty(desc)

\* ------------------------------------------------------------------------
\* Properties of copyContent on rectangles outside the planes
\* ------------------------------------------------------------------------
\* The end of the part of [x, x + w) that lies in [0, limit).
EndIn(x, w, limit) ==
   IF x < 0 THEN Min(limit, w + x) ELSE IF w >= limit - x THEN limit ELSE x + w

\* On one axis the interval [sx, sx + w) misses the source [0, slimit), or
\* the part of it inside the source, moved by dx - sx, misses the destination
\* [0, dlimit).
AxisOutside(sx, w, slimit, dx, dlimit) ==
   \/ Max(sx, 0) >= EndIn(sx, w, slimit)
   \/ dx - sx >= dlimit - Max(sx, 0)
   \/ dx - sx <= -EndIn(sx, w, slimit)

\* The rectangle of the call recorded in args lies outside the source plane
\* or maps outside the destination plane.
RectangleOutside ==
   \/ AxisOutside(args.srcX, args.srcW, args.src.extent.w, args.dstX, args.dst.extent.w)
   \/ AxisOutside(args.srcY, args.srcH, args.src.extent.h, args.dstY, args.dst.extent.h)
   \/ AxisOutside(args.srcZ, args.srcD, args.src.extent.d, args.dstZ, args.dst.extent.d)

C24_RowsInBounds ==
   (pc = "copied" /\ PlaneValid(args.src) /\ PlaneValid(args.dst)) => outcome # "overrun"

\* C25: ImageDesc::load(stream) probes the RIL tag, then the DDS magic, then
\* the raster bridge, hands the stream to at most one decoder, and for stream
\* contents of any length every probe and the decoder start reading at the
\* position the stream had when load was called.
C25_ProbesFromStart ==
   (pc = "loaded" /\ args.probes # <<>>) =>
      /\ args.probes[1].probe = "RIL tag"
      /\ \A i \in 2..Len(args.probes) :
            \/ args.probes[i - 1].probe = "RIL tag" /\ args.probes[i].probe \in {"loadFromRIL", "DDS magic"}
            \/ args.probes[i - 1].probe = "DDS magic" /\ args.probes[i].probe \in {"loadFromDDS", "raster"}
      /\ \A i \in 1..Len(args.probes) : args.probes[i].at = args.begin

\* A load has read a whole DDSFileHeader from the position it started at.
ReadDDSHeader ==
   /\ pc = "loaded" /\ args.op # "ImageDesc::load(data)"
   /\ Len(stream) - args.begin >= SizeofDDSFileHeader
   /\ U32(stream, args.begin) = DDS_MAGIC

\* DDSFileHeader::flags, caps and caps2 of the stream that was loaded.
HeaderFlags == U32(stream, args.begin + 8)
HeaderCaps == U32(stream, args.begin + 108)
HeaderCaps2 == U32(stream, args.begin + 112)

\* The header describes a volume, a cube map with all faces, a 2D texture.
IsVolume == Bit(HeaderFlags, DDS_DDSD_DEPTH) /\ Bit(HeaderCaps, DDS_CAPS_COMPLEX) /\ Bit(HeaderCaps2, DDS_CAPS2_VOLUME)
IsCubemap == Bit(HeaderCaps, DDS_CAPS_COMPLEX) /\ Bit(HeaderCaps2, DDS_CAPS2_CUBEMAP) /\ AllFaces(HeaderCaps2)
Is2D == ~Bit(HeaderCaps2, DDS_CAPS2_CUBEMAP) /\ ~Bit(HeaderCaps2, DDS_CAPS2_VOLUME)

\* C26 (amended): a DDS file that loads has 1 face when the depth flag,
\* DDSCAPS_COMPLEX and DDSCAPS2_VOLUME are set; else 6 faces when
\* DDSCAPS_COMPLEX, DDSCAPS2_CUBEMAP and all face bits are set; else 1 face
\* when neither DDSCAPS2_CUBEMAP nor DDSCAPS2_VOLUME is set; with any other
\* caps the load fails and leaves the descriptor alone.
C26_FaceCount ==
   ReadDDSHeader =>
      /\ outcome = "ok" =>
            /\ IsVolume \/ IsCubemap \/ Is2D
            /\ desc.faces = IF IsVolume THEN 1 ELSE IF IsCubemap THEN 6 ELSE 1
      /\ ~(IsVolume \/ IsCubemap \/ Is2D) => (outcome = "failed" /\ desc = args.target /\ pixels = <<>>)

\* C26 as stated: 6 faces whenever all face bits are set in caps2, 1 face for
\* 2D and volume textures, failure for every other caps combination.
C26_SixWheneverAllFaces ==
   ReadDDSHeader =>
      /\ (outcome = "ok" /\ AllFaces(HeaderCaps2)) => desc.faces = 6
      /\ (outcome = "ok" /\ ~AllFaces(HeaderCaps2)) => desc.faces = 1
      /\ (~AllFaces(HeaderCaps2) /\ ~Is2D /\ ~Bit(HeaderCaps2, DDS_CAPS2_VOLUME)) => outcome = "failed"

\* A cube map was loaded, and a file with caps of no kind was refused.
C26_Witness ==
   /\ ReadDDSHeader /\ outcome = "ok" /\ IsCubemap /\ ~IsVolume /\ desc.faces = 6
   /\ Len(pixels) = 6 * 4

\* The pixel format loadFromDDS detects in the header of the loaded stream,
\* and the offset of the pixels behind the headers.
HeaderIsDX10 == U32(stream, args.begin + 84) = FOURCC_DX10
DetectedFormat ==
   IF HeaderIsDX10 THEN fromDXGI(U32(stream, args.begin + SizeofDDSFileHeader))
   ELSE getPixelFormatFromDDPF(DDPixelFormatAt(stream, args.begin + 76))
FirstPixel ==
   args.begin + SizeofDDSFileHeader + IF HeaderIsDX10 THEN SizeofDDSHeaderDX10 ELSE 0

\* The detected format is a 4-byte format stored blue first.
IsBGR8888 ==
   /\ DetectedFormat.layout = LAYOUT_8_8_8_8 /\ DetectedFormat.swizzle0 = SWIZZLE_Z
   /\ DetectedFormat.swizzle1 = SWIZZLE_Y /\ DetectedFormat.swizzle2 = SWIZZLE_X

NumImages == 2
MaxBuffers == 3

Images == srcData
Heap == dstData

\* Image() = default
DefaultImage == [alive |-> TRUE, desc |-> DefaultDesc, data |-> 0]

\* The storage of an Image before construction and after destruction.
NoImage == [alive |-> FALSE, desc |-> DefaultDesc, data |-> 0]

\* rii_details::afree(p)
afree(heap, p) == IF p = 0 THEN heap ELSE [heap EXCEPT ![p] = @ + 1]

\* The descriptors images are made from: the empty one, a three-pixel row,
\* and the same row with an alignment aalloc refuses.
OwnerDescs ==
   {DefaultDesc} \cup
   {ImageDescReset(DefaultDesc, PlaneDescMake(R_8_UNORM, [w |-> 3, h |-> 1, d |-> 1], 0, 0, 0, al),
                   1, 1, 1, FACE_MAJOR, 0) : al \in {4, 3}}

\* The streams images are loaded from: a saved image, the same file without
\* its last byte, and an empty stream.
OwnerStreams ==
   {saveToRIL(d, PixelBytes(d.size)).bytes : d \in {e \in OwnerDescs : e.alignment = 4}}
      \cup {SubSeq(saveToRIL(d, PixelBytes(d.size)).bytes, 1, Len(saveToRIL(d, PixelBytes(d.size)).bytes) - 1) :
               d \in {e \in OwnerDescs : e.alignment = 4}}
      \cup {<<>>}

\* Image::construct on an Image holding the descriptor d and no buffer; the
\* buffer, when there is one, is the next of the heap.
Constructed(d, heap, allocOk) ==
   IF ImageConstruct(d, [null |-> ~allocOk, bytes |-> Zeros(d.size)], FALSE, <<>>, 0).outcome = "ok"
   THEN [image |-> [alive |-> TRUE, desc |-> d, data |-> Len(heap) + 1], heap |-> Append(heap, 0)]
   ELSE [image |-> [alive |-> TRUE, desc |-> d, data |-> 0], heap |-> heap]

\* Image::clear()
Cleared(heap, image) ==
   [image |-> [alive |-> TRUE, desc |-> DefaultDesc, data |-> 0], heap |-> afree(heap, image.data)]

InitOwner ==
   /\ pc = "owner" /\ args = NoArgs /\ plane = EmptyPlane /\ desc = DefaultDesc
   /\ assertFailed = FALSE /\ srcData = [i \in 1..NumImages |-> NoImage] /\ dstData = <<>>
   /\ stream = <<>> /\ pixels = <<>> /\ outcome = "none"

\* Image::Image(desc)
NewImage ==
   /\ pc = "owner"
   /\ \E i \in 1..NumImages, d \in OwnerDescs, allocOk \in BOOLEAN :
      \E r \in {Constructed(d, dstData, allocOk)} :
         /\ ~srcData[i].alive
         /\ DescEmpty(d) => allocOk
         /\ allocOk \/ aallocMayReturnNull(d.alignment, d.size)
         /\ Len(r.heap) <= MaxBuffers
         /\ srcData' = [srcData EXCEPT ![i] = r.image]
         /\ dstData' = r.heap
         /\ args' = [op |-> "Image", to |-> i, from |-> 0, old |-> 0]
   /\ UNCHANGED <<pc, plane, desc, assertFailed, stream, pixels, outcome>>

\* Image::Image(Image && rhs)
MoveImage ==
   /\ pc = "owner"
   /\ \E i \in 1..NumImages, j \in 1..NumImages :
         /\ i # j /\ ~srcData[i].alive /\ srcData[j].alive
         /\ srcData' = [srcData EXCEPT ![i] = [alive |-> TRUE, desc |-> srcData[j].desc, data |-> srcData[j].data],
                                       ![j] = [alive |-> TRUE, desc |-> DefaultDesc, data |-> 0]]
         /\ args' = [op |-> "Image(Image &&)", to |-> i, from |-> j, old |-> 0]
   /\ UNCHANGED <<pc, plane, desc, assertFailed, dstData, stream, pixels, outcome>>

\* Image::operator=(Image && rhs)
MoveAssignImage ==
   /\ pc = "owner"
   /\ \E i \in 1..NumImages, j \in 1..NumImages :
         /\ srcData[i].alive /\ srcData[j].alive
         /\ srcData' = IF i = j THEN srcData
                       ELSE [srcData EXCEPT ![i] = [alive |-> TRUE, desc |-> srcData[j].desc, data |-> srcData[j].data],
                                            ![j] = [alive |-> TRUE, desc |-> DefaultDesc, data |-> 0]]
         /\ args' = [op |-> "operator=", to |-> i, from |-> j, old |-> IF i = j THEN 0 ELSE srcData[i].data]
   /\ UNCHANGED <<pc, plane, desc, assertFailed, dstData, stream, pixels, outcome>>

\* Image::clear()
ClearImage ==
   /\ pc = "owner"
   /\ \E i \in 1..NumImages :
      \E r \in {Cleared(dstData, srcData[i])} :
         /\ srcData[i].alive
         /\ srcData' = [srcData EXCEPT ![i] = r.image]
         /\ dstData' = r.heap
         /\ args' = [op |-> "clear", to |-> i, from |-> 0, old |-> srcData[i].data]
   /\ UNCHANGED <<pc, plane, desc, assertFailed, stream, pixels, outcome>>

\* Image::~Image()
DestroyImage ==
   /\ pc = "owner"
   /\ \E i \in 1..NumImages :
      \E r \in {Cleared(dstData, srcData[i])} :
         /\ srcData[i].alive
         /\ srcData' = [srcData EXCEPT ![i] = NoImage]
         /\ dstData' = r.heap
         /\ args' = [op |-> "~Image", to |-> i, from |-> 0, old |-> srcData[i].data]
   /\ UNCHANGED <<pc, plane, desc, assertFailed, stream, pixels, outcome>>

\* Image::clone(): Image(desc(), data())
CloneImage ==
   /\ pc = "owner"
   /\ \E i \in 1..NumImages, j \in 1..NumImages, allocOk \in BOOLEAN :
      \E r \in {Constructed(srcData[j].desc, dstData, allocOk)} :
         /\ i # j /\ ~srcData[i].alive /\ srcData[j].alive
         /\ DescEmpty(srcData[j].desc) => allocOk
         /\ allocOk \/ aallocMayReturnNull(srcData[j].desc.alignment, srcData[j].desc.size)
         /\ Len(r.heap) <= MaxBuffers
         /\ srcData' = [srcData EXCEPT ![i] = r.image]
         /\ dstData' = r.heap
         /\ args' = [op |-> "clone", to |-> i, from |-> j, old |-> 0]
   /\ UNCHANGED <<pc, plane, desc, assertFailed, stream, pixels, outcome>>

\* Image::load(stream): the buffer ImageDesc::load returns goes to the new
\* Image; a buffer that was allocated before the read of the pixels failed is
\* released by the AlignedUniquePtr that held it.
LoadImage ==
   /\ pc = "owner"
   /\ \E i \in 1..NumImages, b \in OwnerStreams :
      \E r \in {ImageDescLoad(b, TRUE)} :
         /\ ~srcData[i].alive
         /\ r.asked => Len(dstData) < MaxBuffers
         /\ srcData' = [srcData EXCEPT ![i] =
                          IF r.outcome = "ok" THEN [alive |-> TRUE, desc |-> r.desc, data |-> Len(dstData) + 1]
                          ELSE DefaultImage]
         /\ dstData' = IF r.outcome = "ok" THEN Append(dstData, 0)
                       ELSE IF r.asked THEN Append(dstData, 1)
                       ELSE dstData
         /\ args' = [op |-> "load", to |-> i, from |-> 0, old |-> 0]
   /\ UNCHANGED <<pc, plane, desc, assertFailed, stream, pixels, outcome>>

\* Image::empty(): its RII_ASSERT and its result.
ImageEmpty ==
   /\ pc = "owner"
   /\ ~assertFailed
   /\ \E i \in 1..NumImages :
         /\ srcData[i].alive
         /\ assertFailed' = (DescEmpty(srcData[i].desc) # (srcData[i].data = 0))
         /\ outcome' = IF DescEmpty(srcData[i].desc) THEN "empty" ELSE "not empty"
         /\ args' = [op |-> "empty", to |-> i, from |-> 0, old |-> 0]
   /\ UNCHANGED <<pc, plane, desc, srcData, dstData, stream, pixels>>

NextOwner ==
   NewImage \/ MoveImage \/ MoveAssignImage \/ ClearImage \/ DestroyImage \/ CloneImage \/ LoadImage \/ ImageEmpty

SpecOwner == InitOwner /\ [][NextOwner]_vars

\* No buffer is the data of two Images, and no Image holds a released buffer.
OwnedByOne ==
   \A i \in 1..NumImages :
      (Images[i].alive /\ Images[i].data # 0) =>
         /\ Heap[Images[i].data] = 0
         /\ \A j \in 1..NumImages : (j # i /\ Images[j].alive) => Images[j].data # Images[i].data

\* The Image an Image was moved from owns nothing.
MovedFromOwnsNothing ==
   (args.op \in {"Image(Image &&)", "operator="} /\ args.from # args.to) =>
      (Images[args.from].data = 0 /\ DescEmpty(Images[args.from].desc))

\* C28: every buffer the aligned allocator returned is the data of at most
\* one Image at a time and is never released twice; the Image a move took
\* from owns nothing; a move assignment releases the buffer its target owned;
\* and once every Image is destroyed every buffer has been released exactly
\* once.
C28_OwnedOnceReleasedOnce ==
   pc = "owner" =>
      /\ OwnedByOne
      /\ \A k \in 1..Len(Heap) : Heap[k] <= 1
      /\ MovedFromOwnsNothing
      /\ (args.op = "operator=" /\ args.old # 0) => Heap[args.old] = 1
      /\ (\A i \in 1..NumImages : ~Images[i].alive) => \A k \in 1..Len(Heap) : Heap[k] = 1

\* C29: in every state of a live Image desc().empty() holds exactly when
\* data() is null, and the assertion of Image::empty() never fails.
C29_EmptyIffNull ==
   pc = "owner" =>
      /\ \A i \in 1..NumImages : Images[i].alive => (DescEmpty(Images[i].desc) <=> Images[i].data = 0)
      /\ ~assertFailed

====
